---- MODULE Spec2Model ----
(***************************************************************************)
(* State-machine model of mediatpy.Mediator (src/src/mediatpy/__init__.py) *)
(*                                                                         *)
(* One Mediator instance.  Its fields are the variables; every register_*  *)
(* method is one action; send and publish are coroutines and are modelled  *)
(* as one action per stretch of code between two suspension points (the    *)
(* awaits of a factory call and of a handle call).  Registrations may     *)
(* happen while a dispatch call is suspended.                              *)
(*                                                                         *)
(* Python lists are TLA+ sequences, therefore list index i of the source   *)
(* is index i+1 here; the registration position counter keeps the source's *)
(* 0-based values.  Python dicts keep insertion order, so a dict that is   *)
(* iterated is a sequence of [key, value] entries.                         *)
(***************************************************************************)
EXTENDS Integers, Sequences, FiniteSets, TLC

\* ------------------------------------------------------------------ bounds
MaxCalls == 2
MaxPipelineBehaviorRegistrations == 3
MaxNotificationHandlerRegistrations == 3
MaxConcurrentRunRegistrations == 2

\* ------------------------------------------------- message types and classes
\* Request and Notification are the library's base classes; the others are
\* user classes in the style of tests/my_request.py and
\* tests/test_data/my_notification.py.
RequestTypes == {"Request", "A", "SubA"}
NotificationTypes == {"Notification", "N", "SubN", "M"}

\* the base class of a class ("object" ends every chain)
Base(T) ==
  CASE T = "A" -> "Request"
    [] T = "SubA" -> "A"
    [] T = "N" -> "Notification"
    [] T = "SubN" -> "N"
    [] T = "M" -> "Notification"
    [] OTHER -> "object"

\* Python's issubclass(T, K): T is K or K is among T's bases
RECURSIVE issubclass(_, _)
issubclass(T, K) ==
  IF T = K THEN TRUE
  ELSE IF T = "object" THEN FALSE
  ELSE issubclass(Base(T), K)

\* message instances; they hash by identity (plain classes)
Requests == {"a1", "a2", "suba1"}
Notifications == {"n1", "n2", "subn1"}

\* type(message)
TypeOf(m) ==
  CASE m \in {"a1", "a2"} -> "A"
    [] m = "suba1" -> "SubA"
    [] m \in {"n1", "n2"} -> "N"
    [] m = "subn1" -> "SubN"

\* request handler classes: RequestHandler[TRequest, TResponse]
RequestHandlerClasses == {"HA1", "HA2"}

\* pipeline behavior classes: PipelineBehavior[TRequest, TResponse]
\* (PAWrap as MyPipelineBehavior, PReqWrap as OtherPipelineBehavior)
PipelineBehaviorClasses == {"PReqWrap", "PAWrap", "PAShort", "PSubAFwd"}

\* notification handler classes: NotificationHandler[TNotification]
NotificationHandlerClasses == {"NHBase", "NHN1", "NHN2", "NHSubN", "NHM"}

\* Mediator._get_request_type: first generic argument of the first base
get_request_type(handler) ==
  CASE handler \in {"HA1", "HA2"} -> "A"
    [] handler = "PReqWrap" -> "Request"
    [] handler \in {"PAWrap", "PAShort", "PACatch", "PARetry", "PAFwd"} -> "A"
    [] handler = "PSubAFwd" -> "SubA"

\* Mediator._get_notification_type
get_notification_type(notification_handler) ==
  CASE notification_handler = "NHBase" -> "Notification"
    [] notification_handler \in {"NHN1", "NHN2"} -> "N"
    [] notification_handler = "NHSubN" -> "SubN"
    [] notification_handler = "NHM" -> "M"

\* ----------------------------------------------------------------- values
\* A response is a sequence of strings: its result, then the keys of its
\* data dict in insertion order.
NoValue == <<>>
NoneValue == <<"None">>

\* what RequestHandler.handle of a class returns
\* (HA2 is a handler with no response, as RequestHandlerWithNoResponse)
HandlerResult(cls) ==
  CASE cls = "HA1" -> <<"ha1">>
    [] cls = "HA2" -> NoneValue

\* TRUE when PipelineBehavior.handle of the class awaits next_behavior()
CallsNext(cls) == cls # "PAShort"

\* response.add_data(key, ..) on a response, which is its result followed by
\* the keys of its data in insertion order: data[key] = value adds the key
\* when the dict does not hold it and leaves the keys alone when it does
add_data(response, key) ==
  IF \E i \in 2..Len(response) : response[i] = key
  THEN response
  ELSE Append(response, key)

\* what a behavior returns, given the value its continuation produced:
\* PAWrap (MyPipelineBehavior) and PReqWrap (OtherPipelineBehavior) return
\* the response they got with their key added to its data, PAShort never
\* calls the continuation and produces its own response, and the other
\* classes return what they got
BehaviorResult(cls, v) ==
  CASE cls = "PAWrap" ->
         IF v = NoneValue THEN NoValue ELSE add_data(v, "test")
    [] cls = "PReqWrap" ->
         IF v = NoneValue THEN NoValue ELSE add_data(v, "other_test")
    [] cls = "PAShort" -> <<"short">>
    [] OTHER -> v

\* TRUE when the code of a behavior after `await next_behavior()` raises on
\* the value the continuation produced: PAWrap and PReqWrap call
\* response.add_data on it, an AttributeError when it is None
BehaviorRaises(cls, v) == cls \in {"PAWrap", "PReqWrap"} /\ v = NoneValue

\* the exception raised by a stage: by the factory call for, or by handle of,
\* the class at an index of the resolved list (index 0: the request handler)
StageError(source, cls, idx) == [source |-> source, cls |-> cls, idx |-> idx]

\* no handler class (a type without registry entry) and no message
NoHandler == "NoHandler"
NoMessage == "NoMessage"

\* no exception
NoError == StageError("none", NoHandler, 0)

\* a behavior class whose handle awaits its continuation inside a try and
\* returns a response of its own when the continuation raises
Catches(cls) == cls = "PACatch"

\* the response of such a behavior after it caught an exception
CaughtResult(cls) == <<"recovered">>

\* the classes registered in the runs with two concurrent dispatches
ConcurrentRunPipelineBehaviorClasses == {"PAWrap", "PAShort"}
ConcurrentRunNotificationHandlerClasses == {"NHBase"}

\* the message objects dispatched in those runs
ConcurrentRunRequests == {"a1"}
ConcurrentRunNotifications == {"n1"}

\* the behavior classes of the runs in which stages may raise
RaisingRunPipelineBehaviorClasses == {"PReqWrap", "PACatch"}

\* the registrations of behaviors and notification handlers, taken together,
\* in the runs that use both sides of one mediator
MaxMixedRunRegistrations == 3

\* the classes registered and the message objects dispatched in those runs
MixedRunPipelineBehaviorClasses == {"PReqWrap", "PAWrap", "PSubAFwd"}
MixedRunNotificationHandlerClasses == {"NHBase", "NHSubN", "NHM"}
MixedRunRequests == {"a1", "suba1"}
MixedRunNotifications == {"n1", "subn1"}

\* how many times handle of a retrying behavior awaits its continuation
MaxContinuationCalls == 2

\* how many times PipelineBehavior.handle of the class awaits next_behavior():
\* PARetry awaits it again each time it returned, the other classes that call
\* it await it once
Invocations(cls) ==
  IF cls = "PARetry" THEN MaxContinuationCalls
  ELSE IF CallsNext(cls) THEN 1 ELSE 0

\* the registrations made, and the classes registered, in the runs with two
\* mediators
MaxTwoMediatorRunRegistrations == 1
TwoMediatorRunRequestHandlerClasses == {"HA1"}
TwoMediatorRunPipelineBehaviorClasses == {"PAWrap"}
TwoMediatorRunNotificationHandlerClasses == {"NHBase"}

\* the message objects dispatched in the runs with two mediators
TwoMediatorRunRequests == {"a1"}
TwoMediatorRunNotifications == {"n1"}

\* the behavior classes of the runs that record the start of each send
RecordedRunPipelineBehaviorClasses == {"PAWrap", "PAShort", "PSubAFwd"}

\* the behavior classes of the runs with a retrying behavior
RetryRunPipelineBehaviorClasses == {"PAFwd", "PARetry"}

\* ------------------------------------------------------------------ state
VARIABLES
  request_handlers,            \* self._request_handlers: type -> class
  pipeline_behaviors,          \* self._pipeline_behaviors: dict, in insertion order
  pipeline_behavior_position,  \* self._pipeline_behavior_position
  notification_handlers,       \* self._notification_handlers: dict, in insertion order
  raise_error_if_not_any_registered_notification_handler,
  pipeline_behaviors_cache,    \* @cache of _resolve_pipeline_behaviors, for this self
  notification_handlers_cache, \* @cache of _resolve_notification_handlers, for this self
  call,                        \* the send/publish coroutine of the current dispatch
  calls_made,                  \* history: dispatch calls made so far
  handled,                     \* history: request handler classes whose handle ran
  last_registered,             \* history: per request type, the class of the latest
                               \* register_request_handler call for it
  suspended,                   \* a second dispatch coroutine of the event loop, the
                               \* one that is not running now
  notification_handler_log,    \* history: the classes passed to
                               \* register_notification_handler, in call order
  mediators                    \* a second Mediator instance: which of the two the
                               \* variables above belong to, and the attributes
                               \* and cache entries of the other one

vars == <<request_handlers, pipeline_behaviors, pipeline_behavior_position,
          notification_handlers,
          raise_error_if_not_any_registered_notification_handler,
          pipeline_behaviors_cache, notification_handlers_cache, call,
          calls_made, handled, last_registered, suspended,
          notification_handler_log,
          mediators>>

\* a coroutine that has not run yet.  The fields kind .. outcome, error_arg
\* and error are the coroutine's position, locals and result (error is the
\* exception of a stage that is propagating or has reached the caller);
\* trace is the log of the factory calls and handle calls it made;
\* registered_at_start, positions_seen and cache_hit record which request
\* handlers were registered when the call started, how many behaviors (for a
\* publish: notification handlers) had been registered when it resolved its
\* list, and whether that list came from the cache; positions_at_start is
\* the number of behaviors registered when the send started, in the runs
\* that record it (NotRecorded in the others); again counts the repeated
\* continuation calls of the active behaviors.
NotRecorded == 0 - 1

IdleCall ==
  [kind |-> "none", pc |-> "idle", message |-> NoMessage,
   request_handler |-> NoHandler, pipeline_behaviors |-> <<>>,
   notification_handlers |-> <<>>, index |-> 0, stack |-> <<>>,
   value |-> NoValue, outcome |-> "none", error_arg |-> NoMessage,
   error |-> NoError,
   trace |-> <<>>, registered_at_start |-> [T \in RequestTypes |-> NoHandler],
   positions_at_start |-> NotRecorded,
   positions_seen |-> 0,
   cache_hit |-> FALSE,
   again |-> <<>>]

Event(ev, cls, idx) == [ev |-> ev, cls |-> cls, idx |-> idx]

\* an argument functools.cache holds no result for
NotCached == [cached |-> FALSE, result |-> <<>>]

\* the attributes of the mediator the variables belong to, with the entries
\* that functools.cache holds under this mediator as `self`
ThisMediator ==
  [request_handlers |-> request_handlers,
   pipeline_behaviors |-> pipeline_behaviors,
   pipeline_behavior_position |-> pipeline_behavior_position,
   notification_handlers |-> notification_handlers,
   raise_error_if_not_any_registered_notification_handler |->
     raise_error_if_not_any_registered_notification_handler,
   pipeline_behaviors_cache |-> pipeline_behaviors_cache,
   notification_handlers_cache |-> notification_handlers_cache,
   last_registered |-> last_registered,
   notification_handler_log |-> notification_handler_log]

\* Mediator() with the default arguments, before any call
NewMediator ==
  [request_handlers |-> [T \in RequestTypes |-> NoHandler],
   pipeline_behaviors |-> <<>>,
   pipeline_behavior_position |-> 0,
   notification_handlers |-> <<>>,
   raise_error_if_not_any_registered_notification_handler |-> FALSE,
   pipeline_behaviors_cache |-> [r \in Requests |-> NotCached],
   notification_handlers_cache |-> [n \in Notifications |-> NotCached],
   last_registered |-> [T \in RequestTypes |-> NoHandler],
   notification_handler_log |-> <<>>]

Mediators == {"A", "B"}
OtherMediator(m) == IF m = "A" THEN "B" ELSE "A"

\* Mediator.__init__
Init ==
  /\ request_handlers = [T \in RequestTypes |-> NoHandler]
  /\ pipeline_behaviors = <<>>
  /\ pipeline_behavior_position = 0
  /\ notification_handlers = <<>>
  /\ raise_error_if_not_any_registered_notification_handler \in BOOLEAN
  /\ pipeline_behaviors_cache = [r \in Requests |-> NotCached]
  /\ notification_handlers_cache = [n \in Notifications |-> NotCached]
  /\ call = IdleCall
  /\ calls_made = 0
  /\ handled = {}
  /\ last_registered = [T \in RequestTypes |-> NoHandler]
  /\ suspended = IdleCall
  /\ notification_handler_log = <<>>
  /\ mediators = [current |-> "A", away |-> FALSE, suspended_away |-> FALSE,
                  parked |-> NewMediator]

\* ---------------------------------------------------------- dict helpers
\* index of the entry of key k in an insertion-ordered dict, 0 when absent
KeyIndex(dict, k) ==
  IF \E i \in 1..Len(dict) : dict[i].key = k
  THEN CHOOSE i \in 1..Len(dict) : dict[i].key = k
  ELSE 0

\* d = dict.get(k, []); d.append(item); dict[k] = d
DictAppend(dict, k, item) ==
  IF KeyIndex(dict, k) = 0
  THEN Append(dict, [key |-> k, value |-> <<item>>])
  ELSE [dict EXCEPT ![KeyIndex(dict, k)].value = Append(@, item)]

\* number of items over all keys
RECURSIVE DictSize(_)
DictSize(dict) ==
  IF dict = <<>> THEN 0 ELSE Len(Head(dict).value) + DictSize(Tail(dict))

\* [x for sublist in matching for x in sublist]
RECURSIVE Flatten(_)
Flatten(lists) ==
  IF lists = <<>> THEN <<>> ELSE Head(lists) \o Flatten(Tail(lists))

\* variant: only the key that is the exact type matches
RECURSIVE MatchingValues_exact(_, _)
MatchingValues_exact(dict, T) ==
  IF dict = <<>> THEN <<>>
  ELSE IF T = Head(dict).key
       THEN <<Head(dict).value>> \o MatchingValues_exact(Tail(dict), T)
       ELSE MatchingValues_exact(Tail(dict), T)

\* [value for key, value in dict.items() if issubclass(T, key)]
RECURSIVE MatchingValues(_, _)
MatchingValues(dict, T) ==
  IF dict = <<>> THEN <<>>
  ELSE IF issubclass(T, Head(dict).key)
       THEN <<Head(dict).value>> \o MatchingValues(Tail(dict), T)
       ELSE MatchingValues(Tail(dict), T)

\* insertion of one registration into a list sorted by position (stable)
RECURSIVE InsertByPosition(_, _)
InsertByPosition(sorted, reg) ==
  IF sorted = <<>> THEN <<reg>>
  ELSE IF Head(sorted).position <= reg.position
       THEN <<Head(sorted)>> \o InsertByPosition(Tail(sorted), reg)
       ELSE <<reg>> \o sorted

\* variant: the flattened list is not sorted
SortByPosition_unsorted(list) == list

\* sorted(flattened, key=lambda pipeline_behavior: pipeline_behavior.position)
RECURSIVE SortByPosition(_)
SortByPosition(list) ==
  IF list = <<>> THEN <<>>
  ELSE InsertByPosition(SortByPosition(SubSeq(list, 1, Len(list) - 1)),
                        list[Len(list)])

\* ------------------------------------------------------------ registration
\* variant: self._request_handlers.setdefault(request, request_handler)
register_request_handler_setdefault(request_handler) ==
  /\ request_handlers' =
       [request_handlers EXCEPT ![get_request_type(request_handler)] =
          IF @ = NoHandler THEN request_handler ELSE @]
  /\ last_registered' =
       [last_registered EXCEPT ![get_request_type(request_handler)] = request_handler]
  /\ UNCHANGED <<mediators, pipeline_behaviors, pipeline_behavior_position,
                 notification_handlers,
                 raise_error_if_not_any_registered_notification_handler,
                 pipeline_behaviors_cache, notification_handlers_cache, call,
                 calls_made, handled,
                 suspended, notification_handler_log>>

\* Mediator.register_request_handler
register_request_handler(request_handler) ==
  /\ request_handlers' =
       [request_handlers EXCEPT ![get_request_type(request_handler)] = request_handler]
  /\ last_registered' =
       [last_registered EXCEPT ![get_request_type(request_handler)] = request_handler]
  /\ UNCHANGED <<mediators, pipeline_behaviors, pipeline_behavior_position,
                 notification_handlers,
                 raise_error_if_not_any_registered_notification_handler,
                 pipeline_behaviors_cache, notification_handlers_cache, call,
                 calls_made, handled,
                 suspended, notification_handler_log>>

\* variant: the position counter is not advanced
register_pipeline_behavior_same_position(pipeline_behavior) ==
  /\ DictSize(pipeline_behaviors) < MaxPipelineBehaviorRegistrations
  /\ pipeline_behaviors' =
       DictAppend(pipeline_behaviors, get_request_type(pipeline_behavior),
                  [pipeline_behavior |-> pipeline_behavior,
                   position |-> pipeline_behavior_position])
  /\ UNCHANGED <<mediators, request_handlers, notification_handlers,
                 pipeline_behavior_position,
                 raise_error_if_not_any_registered_notification_handler,
                 pipeline_behaviors_cache, notification_handlers_cache, call,
                 calls_made, handled, last_registered,
                 suspended, notification_handler_log>>

\* Mediator.register_pipeline_behavior
register_pipeline_behavior(pipeline_behavior) ==
  /\ pipeline_behavior_position < MaxPipelineBehaviorRegistrations
  /\ pipeline_behaviors' =
       DictAppend(pipeline_behaviors, get_request_type(pipeline_behavior),
                  [pipeline_behavior |-> pipeline_behavior,
                   position |-> pipeline_behavior_position])
  /\ pipeline_behavior_position' = pipeline_behavior_position + 1
  /\ UNCHANGED <<mediators, request_handlers, notification_handlers,
                 raise_error_if_not_any_registered_notification_handler,
                 pipeline_behaviors_cache, notification_handlers_cache, call,
                 calls_made, handled, last_registered,
                 suspended, notification_handler_log>>

\* variant: self._notification_handlers[notification] = [notification_handler]
register_notification_handler_replacing(notification_handler) ==
  /\ DictSize(notification_handlers) < MaxNotificationHandlerRegistrations
  /\ notification_handlers' =
       LET k == get_notification_type(notification_handler)
           i == KeyIndex(notification_handlers, k)
       IN IF i = 0
          THEN Append(notification_handlers,
                      [key |-> k, value |-> <<notification_handler>>])
          ELSE [notification_handlers EXCEPT
                  ![i].value = <<notification_handler>>]
  /\ notification_handler_log' =
       Append(notification_handler_log, notification_handler)
  /\ UNCHANGED <<mediators, request_handlers, pipeline_behaviors,
                 pipeline_behavior_position,
                 raise_error_if_not_any_registered_notification_handler,
                 pipeline_behaviors_cache, notification_handlers_cache, call,
                 calls_made, handled, last_registered, suspended>>

\* Mediator.register_notification_handler
register_notification_handler(notification_handler) ==
  /\ DictSize(notification_handlers) < MaxNotificationHandlerRegistrations
  /\ notification_handlers' =
       DictAppend(notification_handlers,
                  get_notification_type(notification_handler),
                  notification_handler)
  /\ notification_handler_log' =
       Append(notification_handler_log, notification_handler)
  /\ UNCHANGED <<mediators, request_handlers, pipeline_behaviors,
                 pipeline_behavior_position,
                 raise_error_if_not_any_registered_notification_handler,
                 pipeline_behaviors_cache, notification_handlers_cache, call,
                 calls_made, handled, last_registered, suspended>>

\* -------------------------------------------------------------- resolution
\* body of Mediator._resolve_pipeline_behaviors
resolve_pipeline_behaviors_body(request) ==
  SortByPosition(Flatten(MatchingValues(pipeline_behaviors, TypeOf(request))))

\* a list back to front
RECURSIVE Reversed(_)
Reversed(list) ==
  IF list = <<>> THEN <<>> ELSE Append(Reversed(Tail(list)), Head(list))

\* variant: the keys of the registry are scanned latest first
resolve_notification_handlers_body_latest_first(notification) ==
  Flatten(Reversed(MatchingValues(notification_handlers,
                                  TypeOf(notification))))

\* body of Mediator._resolve_notification_handlers
resolve_notification_handlers_body(notification) ==
  Flatten(MatchingValues(notification_handlers, TypeOf(notification)))

\* variant: the function is not memoized
Cached_uncached(cache, arg, body) == body

\* a call of a function under functools.cache: the stored result on a hit,
\* the body's result on a miss
Cached(cache, arg, body) ==
  IF cache[arg].cached THEN cache[arg].result ELSE body

\* the cache after that call
CacheAfter(cache, arg, body) ==
  IF cache[arg].cached THEN cache
  ELSE [cache EXCEPT ![arg] = [cached |-> TRUE, result |-> body]]

\* Mediator._resolve_pipeline_behaviors (with @cache)
resolve_pipeline_behaviors(request) ==
  Cached(pipeline_behaviors_cache, request,
         resolve_pipeline_behaviors_body(request))

\* Mediator._resolve_notification_handlers (with @cache)
resolve_notification_handlers(notification) ==
  Cached(notification_handlers_cache, notification,
         resolve_notification_handlers_body(notification))

\* ------------------------------------------------------------------- send
\* variant: the registry is tested for being non-empty
request_handler_registered_any(request) ==
  \E T \in RequestTypes : request_handlers[T] # NoHandler

\* variant: a handler registered for a base class of the request counts
request_handler_registered_subclass(request) ==
  \E T \in RequestTypes :
    issubclass(TypeOf(request), T) /\ request_handlers[T] # NoHandler

\* `type(request) in self._request_handlers`
request_handler_registered(request) ==
  request_handlers[TypeOf(request)] # NoHandler

\* any(list) of a list of registrations or of classes, which are all truthy
any(list) == list # <<>>

\* variant: the closure awaits the next stage and returns nothing to the
\* behavior that invoked it
ReturnValue_dropped(co, v) ==
  IF co.stack = <<>>
  THEN [co EXCEPT !.pc = "done", !.outcome = "returned", !.value = v]
  ELSE [co EXCEPT !.pc = "pipeline_behavior_resume", !.value = NoneValue]

\* a stage returned v to the code awaiting it: to the behavior that invoked
\* its continuation, or to the caller of send when no behavior is active
ReturnValue(co, v) ==
  IF co.stack = <<>>
  THEN [co EXCEPT !.pc = "done", !.outcome = "returned", !.value = v]
  ELSE [co EXCEPT !.pc = "pipeline_behavior_resume", !.value = v]

\* variant: the last behavior of the list is taken for the end of the chain
next_pipeline_behavior_off_by_one(co, index) ==
  IF index + 1 >= Len(co.pipeline_behaviors)
  THEN [co EXCEPT
          !.pc = "request_handler_handle",
          !.trace = Append(@, Event("enter_rh", co.request_handler, 0))]
  ELSE [co EXCEPT
          !.pc = "create_pipeline_behavior",
          !.index = index + 1,
          !.trace = Append(@, Event("factory_pb",
                     co.pipeline_behaviors[index + 1].pipeline_behavior,
                     index + 1))]

\* the closure `_` made by Mediator._get_next_pipeline_behavior(..., index),
\* run up to its first await; index is the 1-based index of the behavior
\* that owns the continuation
next_pipeline_behavior(co, index) ==
  IF index = Len(co.pipeline_behaviors)
  THEN [co EXCEPT
          !.pc = "request_handler_handle",
          !.trace = Append(@, Event("enter_rh", co.request_handler, 0))]
  ELSE [co EXCEPT
          !.pc = "create_pipeline_behavior",
          !.index = index + 1,
          !.trace = Append(@, Event("factory_pb",
                     co.pipeline_behaviors[index + 1].pipeline_behavior,
                     index + 1))]

\* the caller awaits each dispatch call before it makes the next one
MayStart == call.pc \in {"idle", "done"} /\ calls_made < MaxCalls

\* variant: the handler instance of an earlier dispatch is kept and used again
\* instead of a call of the factory
send_pooled(request) ==
  /\ MayStart
  /\ calls_made' = calls_made + 1
  /\ call' =
       IF ~ request_handler_registered(request)
       THEN [IdleCall EXCEPT !.kind = "send", !.message = request,
                      !.registered_at_start = last_registered,
                      !.pc = "done",
                      !.outcome = "NoRequestHandlerFoundError",
                      !.error_arg = request]
       ELSE [IdleCall EXCEPT !.kind = "send", !.message = request,
                      !.registered_at_start = last_registered,
                      !.pc = "create_request_handler",
                      !.request_handler = request_handlers[TypeOf(request)],
                      !.trace =
                         IF request_handlers[TypeOf(request)] \in handled
                         THEN <<>>
                         ELSE <<Event("factory_rh",
                                  request_handlers[TypeOf(request)], 0)>>]
  /\ UNCHANGED <<mediators, request_handlers, pipeline_behaviors,
                 pipeline_behavior_position, notification_handlers,
                 raise_error_if_not_any_registered_notification_handler,
                 pipeline_behaviors_cache, notification_handlers_cache,
                 handled, last_registered,
                 suspended, notification_handler_log>>

\* Mediator.send up to the await of the request handler factory
send(request) ==
  /\ MayStart
  /\ calls_made' = calls_made + 1
  /\ call' =
       IF ~ request_handler_registered(request)
       THEN [IdleCall EXCEPT !.kind = "send", !.message = request,
                      !.registered_at_start = last_registered,
                      !.pc = "done",
                      !.outcome = "NoRequestHandlerFoundError",
                      !.error_arg = request]
       ELSE [IdleCall EXCEPT !.kind = "send", !.message = request,
                      !.registered_at_start = last_registered,
                      !.pc = "create_request_handler",
                      !.request_handler = request_handlers[TypeOf(request)],
                      !.trace = <<Event("factory_rh",
                                 request_handlers[TypeOf(request)], 0)>>]
  /\ UNCHANGED <<mediators, request_handlers, pipeline_behaviors,
                 pipeline_behavior_position, notification_handlers,
                 raise_error_if_not_any_registered_notification_handler,
                 pipeline_behaviors_cache, notification_handlers_cache,
                 handled, last_registered,
                 suspended, notification_handler_log>>

\* Mediator.send up to the await of the request handler factory, in a run
\* that records how many behaviors were registered when the send started
send_recording_start(request) ==
  /\ MayStart
  /\ calls_made' = calls_made + 1
  /\ call' =
       IF ~ request_handler_registered(request)
       THEN [IdleCall EXCEPT !.kind = "send", !.message = request,
                      !.registered_at_start = last_registered,
                      !.pc = "done",
                      !.outcome = "NoRequestHandlerFoundError",
                      !.error_arg = request]
       ELSE [IdleCall EXCEPT !.kind = "send", !.message = request,
                      !.registered_at_start = last_registered,
                      !.positions_at_start = pipeline_behavior_position,
                      !.pc = "create_request_handler",
                      !.request_handler = request_handlers[TypeOf(request)],
                      !.trace = <<Event("factory_rh",
                                 request_handlers[TypeOf(request)], 0)>>]
  /\ UNCHANGED <<mediators, request_handlers, pipeline_behaviors,
                 pipeline_behavior_position, notification_handlers,
                 raise_error_if_not_any_registered_notification_handler,
                 pipeline_behaviors_cache, notification_handlers_cache,
                 handled, last_registered,
                 suspended, notification_handler_log>>

\* the factory calls for the behaviors of a list from a 1-based index on
RECURSIVE FactoryCalls(_, _)
FactoryCalls(list, index) ==
  IF index > Len(list) THEN <<>>
  ELSE <<Event("factory_pb", list[index].pipeline_behavior, index)>>
         \o FactoryCalls(list, index + 1)

\* variant: every behavior of the resolved list is created before the first
\* one runs
request_handler_created_eager ==
  /\ call.pc = "create_request_handler"
  /\ LET request == call.message
         resolved == resolve_pipeline_behaviors(request)
         resumed == [call EXCEPT
                    !.pipeline_behaviors = resolved,
                    !.positions_seen = pipeline_behavior_position,
                    !.cache_hit = pipeline_behaviors_cache[request].cached]
     IN /\ pipeline_behaviors_cache' =
             CacheAfter(pipeline_behaviors_cache, request,
                        resolve_pipeline_behaviors_body(request))
        /\ call' =
             IF ~ any(resolved)
             THEN [resumed EXCEPT
                     !.pc = "request_handler_handle",
                     !.trace = Append(@, Event("enter_rh", call.request_handler, 0))]
             ELSE [resumed EXCEPT
                     !.pc = "create_pipeline_behavior",
                     !.index = 1,
                     !.trace = @ \o FactoryCalls(resolved, 1)]
  /\ UNCHANGED <<mediators, request_handlers, pipeline_behaviors,
                 pipeline_behavior_position, notification_handlers,
                 raise_error_if_not_any_registered_notification_handler,
                 notification_handlers_cache, calls_made, handled,
                 last_registered,
                 suspended, notification_handler_log>>

\* Mediator.send from the return of the request handler factory to the next
\* await: the handler's handle, or the factory of the first behavior
request_handler_created ==
  /\ call.pc = "create_request_handler"
  /\ LET request == call.message
         resolved == resolve_pipeline_behaviors(request)
         resumed == [call EXCEPT
                    !.pipeline_behaviors = resolved,
                    !.positions_seen = pipeline_behavior_position,
                    !.cache_hit = pipeline_behaviors_cache[request].cached]
     IN /\ pipeline_behaviors_cache' =
             CacheAfter(pipeline_behaviors_cache, request,
                        resolve_pipeline_behaviors_body(request))
        /\ call' =
             IF ~ any(resolved)
             THEN [resumed EXCEPT
                     !.pc = "request_handler_handle",
                     !.trace = Append(@, Event("enter_rh", call.request_handler, 0))]
             ELSE [resumed EXCEPT
                     !.pc = "create_pipeline_behavior",
                     !.index = 1,
                     !.trace = Append(@, Event("factory_pb",
                                resolved[1].pipeline_behavior, 1))]
  /\ UNCHANGED <<mediators, request_handlers, pipeline_behaviors,
                 pipeline_behavior_position, notification_handlers,
                 raise_error_if_not_any_registered_notification_handler,
                 notification_handlers_cache, calls_made, handled,
                 last_registered,
                 suspended, notification_handler_log>>

\* variant: the list of behaviors is read from the registry again whenever a
\* behavior has been created
pipeline_behavior_created_rereading ==
  /\ call.pc = "create_pipeline_behavior"
  /\ call' =
       [call EXCEPT
          !.pc = "pipeline_behavior_handle",
          !.pipeline_behaviors = resolve_pipeline_behaviors_body(call.message),
          !.stack = Append(@, call.index),
          !.trace = Append(@, Event("enter_pb",
                     call.pipeline_behaviors[call.index].pipeline_behavior,
                     call.index))]
  /\ UNCHANGED <<mediators, request_handlers, pipeline_behaviors,
                 pipeline_behavior_position, notification_handlers,
                 raise_error_if_not_any_registered_notification_handler,
                 pipeline_behaviors_cache, notification_handlers_cache,
                 calls_made, handled, last_registered,
                 suspended, notification_handler_log>>

\* the behavior factory returned: handle of the new behavior is called
pipeline_behavior_created ==
  /\ call.pc = "create_pipeline_behavior"
  /\ call' =
       [call EXCEPT
          !.pc = "pipeline_behavior_handle",
          !.stack = Append(@, call.index),
          !.trace = Append(@, Event("enter_pb",
                     call.pipeline_behaviors[call.index].pipeline_behavior,
                     call.index))]
  /\ UNCHANGED <<mediators, request_handlers, pipeline_behaviors,
                 pipeline_behavior_position, notification_handlers,
                 raise_error_if_not_any_registered_notification_handler,
                 pipeline_behaviors_cache, notification_handlers_cache,
                 calls_made, handled, last_registered,
                 suspended, notification_handler_log>>

\* PipelineBehavior.handle of the innermost active behavior: it awaits its
\* continuation, or returns a response of its own without calling it
pipeline_behavior_handle ==
  /\ call.pc = "pipeline_behavior_handle"
  /\ LET index == call.stack[Len(call.stack)]
         cls == call.pipeline_behaviors[index].pipeline_behavior
     IN call' =
          IF CallsNext(cls)
          THEN next_pipeline_behavior(call, index)
          ELSE ReturnValue(
                 [call EXCEPT
                    !.stack = SubSeq(@, 1, Len(@) - 1),
                    !.trace = Append(@, Event("exit_pb", cls, index))],
                 BehaviorResult(cls, NoValue))
  /\ UNCHANGED <<mediators, request_handlers, pipeline_behaviors,
                 pipeline_behavior_position, notification_handlers,
                 raise_error_if_not_any_registered_notification_handler,
                 pipeline_behaviors_cache, notification_handlers_cache,
                 calls_made, handled, last_registered,
                 suspended, notification_handler_log>>

\* variant: the handler is awaited and its response is not returned
request_handler_handle_no_return ==
  /\ call.pc = "request_handler_handle"
  /\ call' =
       ReturnValue(
         [call EXCEPT
            !.trace = Append(@, Event("exit_rh", call.request_handler, 0))],
         NoneValue)
  /\ handled' = handled \cup {call.request_handler}
  /\ UNCHANGED <<mediators, request_handlers, pipeline_behaviors,
                 pipeline_behavior_position, notification_handlers,
                 raise_error_if_not_any_registered_notification_handler,
                 pipeline_behaviors_cache, notification_handlers_cache,
                 calls_made, last_registered,
                 suspended, notification_handler_log>>

\* RequestHandler.handle completes and its response goes to its awaiter
request_handler_handle ==
  /\ call.pc = "request_handler_handle"
  /\ call' =
       ReturnValue(
         [call EXCEPT
            !.trace = Append(@, Event("exit_rh", call.request_handler, 0))],
         HandlerResult(call.request_handler))
  /\ handled' = handled \cup {call.request_handler}
  /\ UNCHANGED <<mediators, request_handlers, pipeline_behaviors,
                 pipeline_behavior_position, notification_handlers,
                 raise_error_if_not_any_registered_notification_handler,
                 pipeline_behaviors_cache, notification_handlers_cache,
                 calls_made, last_registered,
                 suspended, notification_handler_log>>

\* variant: the mediator swallows the exception and the send returns None
RECURSIVE Raise_swallowed(_, _)
Raise_swallowed(co, err) ==
  [co EXCEPT !.pc = "done", !.outcome = "returned", !.value = NoneValue,
             !.stack = <<>>]

\* an exception raised in the stage that the innermost active behavior
\* awaits (in send itself when no behavior is active): it passes through the
\* behaviors that await their continuation outside a try, lines 288-299 and
\* 236-240 having no try themselves, up to the innermost behavior that
\* catches it or to the caller of send
RECURSIVE Raise(_, _)
Raise(co, err) ==
  IF co.stack = <<>>
  THEN [co EXCEPT !.pc = "done", !.outcome = "raised", !.error = err,
                  !.value = NoValue]
  ELSE LET index == co.stack[Len(co.stack)]
       IN IF Catches(co.pipeline_behaviors[index].pipeline_behavior)
          THEN [co EXCEPT !.pc = "pipeline_behavior_except", !.error = err,
                          !.value = NoValue]
          ELSE Raise([co EXCEPT !.stack = SubSeq(@, 1, Len(@) - 1)], err)

\* variant: the behavior's handle is awaited and its response is not returned
pipeline_behavior_resume_no_return ==
  /\ call.pc = "pipeline_behavior_resume"
  /\ LET index == call.stack[Len(call.stack)]
         cls == call.pipeline_behaviors[index].pipeline_behavior
     IN call' =
          IF BehaviorRaises(cls, call.value)
          THEN Raise([call EXCEPT
                        !.stack = SubSeq(@, 1, Len(@) - 1),
                        !.trace = Append(@, Event("raise_pb", cls, index))],
                     StageError("handle", cls, index))
          ELSE ReturnValue(
                 [call EXCEPT
                    !.stack = SubSeq(@, 1, Len(@) - 1),
                    !.trace = Append(@, Event("exit_pb", cls, index))],
                 NoneValue)
  /\ UNCHANGED <<mediators, request_handlers, pipeline_behaviors,
                 pipeline_behavior_position, notification_handlers,
                 raise_error_if_not_any_registered_notification_handler,
                 pipeline_behaviors_cache, notification_handlers_cache,
                 calls_made, handled, last_registered,
                 suspended, notification_handler_log>>

\* the continuation of the innermost active behavior returned: the behavior
\* runs its code after `await next_behavior()` and returns
pipeline_behavior_resume ==
  /\ call.pc = "pipeline_behavior_resume"
  /\ LET index == call.stack[Len(call.stack)]
         cls == call.pipeline_behaviors[index].pipeline_behavior
     IN call' =
          IF BehaviorRaises(cls, call.value)
          THEN Raise([call EXCEPT
                        !.stack = SubSeq(@, 1, Len(@) - 1),
                        !.trace = Append(@, Event("raise_pb", cls, index))],
                     StageError("handle", cls, index))
          ELSE ReturnValue(
                 [call EXCEPT
                    !.stack = SubSeq(@, 1, Len(@) - 1),
                    !.trace = Append(@, Event("exit_pb", cls, index))],
                 BehaviorResult(cls, call.value))
  /\ UNCHANGED <<mediators, request_handlers, pipeline_behaviors,
                 pipeline_behavior_position, notification_handlers,
                 raise_error_if_not_any_registered_notification_handler,
                 pipeline_behaviors_cache, notification_handlers_cache,
                 calls_made, handled, last_registered,
                 suspended, notification_handler_log>>

\* variant: the loop stops before the last handler of the list
publish_loop_short(co, index) ==
  IF index >= Len(co.notification_handlers)
  THEN [co EXCEPT !.pc = "done", !.outcome = "returned", !.value = NoneValue]
  ELSE [co EXCEPT
          !.pc = "create_notification_handler",
          !.index = index,
          !.trace = Append(@, Event("factory_nh",
                     co.notification_handlers[index], index))]

\* ---------------------------------------------------------------- publish
\* the loop of Mediator.publish reaches the handler at a 1-based index: its
\* factory is awaited, or the loop is over and publish returns None
publish_loop(co, index) ==
  IF index > Len(co.notification_handlers)
  THEN [co EXCEPT !.pc = "done", !.outcome = "returned", !.value = NoneValue]
  ELSE [co EXCEPT
          !.pc = "create_notification_handler",
          !.index = index,
          !.trace = Append(@, Event("factory_nh",
                     co.notification_handlers[index], index))]

\* variant: an empty list raises whatever the flag
publish_strict(notification) ==
  /\ MayStart
  /\ calls_made' = calls_made + 1
  /\ LET resolved == resolve_notification_handlers(notification)
         started == [IdleCall EXCEPT
                    !.kind = "publish", !.message = notification,
                    !.positions_seen = DictSize(notification_handlers),
                    !.notification_handlers = resolved,
                    !.cache_hit = notification_handlers_cache[notification].cached]
     IN /\ notification_handlers_cache' =
             CacheAfter(notification_handlers_cache, notification,
                        resolve_notification_handlers_body(notification))
        /\ call' =
             IF ~ any(resolved)
             THEN [started EXCEPT
                     !.pc = "done",
                     !.outcome = "NotAnyNotificationHandlerFoundError",
                     !.error_arg = notification]
             ELSE publish_loop(started, 1)
  /\ UNCHANGED <<mediators, request_handlers, pipeline_behaviors,
                 pipeline_behavior_position, notification_handlers,
                 raise_error_if_not_any_registered_notification_handler,
                 pipeline_behaviors_cache, handled, last_registered,
                 suspended, notification_handler_log>>

\* Mediator.publish up to its first await
publish(notification) ==
  /\ MayStart
  /\ calls_made' = calls_made + 1
  /\ LET resolved == resolve_notification_handlers(notification)
         started == [IdleCall EXCEPT
                    !.kind = "publish", !.message = notification,
                    !.positions_seen = DictSize(notification_handlers),
                    !.notification_handlers = resolved,
                    !.cache_hit = notification_handlers_cache[notification].cached]
     IN /\ notification_handlers_cache' =
             CacheAfter(notification_handlers_cache, notification,
                        resolve_notification_handlers_body(notification))
        /\ call' =
             IF ~ any(resolved)
                /\ raise_error_if_not_any_registered_notification_handler
             THEN [started EXCEPT
                     !.pc = "done",
                     !.outcome = "NotAnyNotificationHandlerFoundError",
                     !.error_arg = notification]
             ELSE publish_loop(started, 1)
  /\ UNCHANGED <<mediators, request_handlers, pipeline_behaviors,
                 pipeline_behavior_position, notification_handlers,
                 raise_error_if_not_any_registered_notification_handler,
                 pipeline_behaviors_cache, handled, last_registered,
                 suspended, notification_handler_log>>

\* the notification handler factory returned: handle of the new handler is
\* called
notification_handler_created ==
  /\ call.pc = "create_notification_handler"
  /\ call' =
       [call EXCEPT
          !.pc = "notification_handler_handle",
          !.trace = Append(@, Event("enter_nh",
                     call.notification_handlers[call.index],
                     call.index))]
  /\ UNCHANGED <<mediators, request_handlers, pipeline_behaviors,
                 pipeline_behavior_position, notification_handlers,
                 raise_error_if_not_any_registered_notification_handler,
                 pipeline_behaviors_cache, notification_handlers_cache,
                 calls_made, handled, last_registered,
                 suspended, notification_handler_log>>

\* NotificationHandler.handle completes and the loop goes on
notification_handler_handle ==
  /\ call.pc = "notification_handler_handle"
  /\ call' =
       publish_loop(
         [call EXCEPT
            !.trace = Append(@, Event("exit_nh",
                       call.notification_handlers[call.index],
                       call.index))],
         call.index + 1)
  /\ UNCHANGED <<mediators, request_handlers, pipeline_behaviors,
                 pipeline_behavior_position, notification_handlers,
                 raise_error_if_not_any_registered_notification_handler,
                 pipeline_behaviors_cache, notification_handlers_cache,
                 calls_made, handled, last_registered,
                 suspended, notification_handler_log>>

\* the request handler factory raises
request_handler_factory_raises ==
  /\ call.pc = "create_request_handler"
  /\ call' =
       Raise([call EXCEPT
                !.trace = Append(@, Event("raise_factory_rh",
                                          call.request_handler, 0))],
             StageError("factory", call.request_handler, 0))
  /\ UNCHANGED <<mediators, request_handlers, pipeline_behaviors,
                 pipeline_behavior_position, notification_handlers,
                 raise_error_if_not_any_registered_notification_handler,
                 pipeline_behaviors_cache, notification_handlers_cache,
                 calls_made, handled, last_registered,
                 suspended, notification_handler_log>>

\* the pipeline behavior factory raises
pipeline_behavior_factory_raises ==
  /\ call.pc = "create_pipeline_behavior"
  /\ LET cls == call.pipeline_behaviors[call.index].pipeline_behavior
     IN call' =
          Raise([call EXCEPT
                   !.trace = Append(@, Event("raise_factory_pb", cls,
                                             call.index))],
                StageError("factory", cls, call.index))
  /\ UNCHANGED <<mediators, request_handlers, pipeline_behaviors,
                 pipeline_behavior_position, notification_handlers,
                 raise_error_if_not_any_registered_notification_handler,
                 pipeline_behaviors_cache, notification_handlers_cache,
                 calls_made, handled, last_registered,
                 suspended, notification_handler_log>>

\* PipelineBehavior.handle of the innermost active behavior raises, before
\* it calls its continuation or after the continuation returned
pipeline_behavior_handle_raises ==
  /\ call.pc \in {"pipeline_behavior_handle", "pipeline_behavior_resume"}
  /\ LET index == call.stack[Len(call.stack)]
         cls == call.pipeline_behaviors[index].pipeline_behavior
     IN call' =
          Raise([call EXCEPT
                   !.stack = SubSeq(@, 1, Len(@) - 1),
                   !.trace = Append(@, Event("raise_pb", cls, index))],
                StageError("handle", cls, index))
  /\ UNCHANGED <<mediators, request_handlers, pipeline_behaviors,
                 pipeline_behavior_position, notification_handlers,
                 raise_error_if_not_any_registered_notification_handler,
                 pipeline_behaviors_cache, notification_handlers_cache,
                 calls_made, handled, last_registered,
                 suspended, notification_handler_log>>

\* RequestHandler.handle raises
request_handler_handle_raises ==
  /\ call.pc = "request_handler_handle"
  /\ call' =
       Raise([call EXCEPT
                !.trace = Append(@, Event("raise_rh",
                                          call.request_handler, 0))],
             StageError("handle", call.request_handler, 0))
  /\ handled' = handled \cup {call.request_handler}
  /\ UNCHANGED <<mediators, request_handlers, pipeline_behaviors,
                 pipeline_behavior_position, notification_handlers,
                 raise_error_if_not_any_registered_notification_handler,
                 pipeline_behaviors_cache, notification_handlers_cache,
                 calls_made, last_registered,
                 suspended, notification_handler_log>>

\* the except clause of the innermost active behavior: it returns a response
\* of its own
pipeline_behavior_except ==
  /\ call.pc = "pipeline_behavior_except"
  /\ LET index == call.stack[Len(call.stack)]
         cls == call.pipeline_behaviors[index].pipeline_behavior
     IN call' =
          ReturnValue(
            [call EXCEPT
               !.stack = SubSeq(@, 1, Len(@) - 1),
               !.error = NoError,
               !.trace = Append(@, Event("exit_pb", cls, index))],
            CaughtResult(cls))
  /\ UNCHANGED <<mediators, request_handlers, pipeline_behaviors,
                 pipeline_behavior_position, notification_handlers,
                 raise_error_if_not_any_registered_notification_handler,
                 pipeline_behaviors_cache, notification_handlers_cache,
                 calls_made, handled, last_registered,
                 suspended, notification_handler_log>>

\* variant: the failure of a handler is kept aside and the loop goes on
notification_handler_handle_raises_isolated ==
  /\ call.pc = "notification_handler_handle"
  /\ LET cls == call.notification_handlers[call.index]
     IN call' =
          publish_loop(
            [call EXCEPT
               !.error = StageError("handle", cls, call.index),
               !.trace = Append(@, Event("raise_nh", cls, call.index))],
            call.index + 1)
  /\ UNCHANGED <<mediators, request_handlers, pipeline_behaviors,
                 pipeline_behavior_position, notification_handlers,
                 raise_error_if_not_any_registered_notification_handler,
                 pipeline_behaviors_cache, notification_handlers_cache,
                 calls_made, handled, last_registered,
                 suspended, notification_handler_log>>

\* NotificationHandler.handle raises: the exception leaves the for loop and
\* publish (lines 256-257 have no try)
notification_handler_handle_raises ==
  /\ call.pc = "notification_handler_handle"
  /\ LET cls == call.notification_handlers[call.index]
     IN call' =
          [call EXCEPT
             !.pc = "done",
             !.outcome = "raised",
             !.error = StageError("handle", cls, call.index),
             !.trace = Append(@, Event("raise_nh", cls, call.index))]
  /\ UNCHANGED <<mediators, request_handlers, pipeline_behaviors,
                 pipeline_behavior_position, notification_handlers,
                 raise_error_if_not_any_registered_notification_handler,
                 pipeline_behaviors_cache, notification_handlers_cache,
                 calls_made, handled, last_registered,
                 suspended, notification_handler_log>>

\* the notification handler factory raises: the exception leaves publish
notification_handler_factory_raises ==
  /\ call.pc = "create_notification_handler"
  /\ LET cls == call.notification_handlers[call.index]
     IN call' =
          [call EXCEPT
             !.pc = "done",
             !.outcome = "raised",
             !.error = StageError("factory", cls, call.index),
             !.trace = Append(@, Event("raise_factory_nh", cls, call.index))]
  /\ UNCHANGED <<mediators, request_handlers, pipeline_behaviors,
                 pipeline_behavior_position, notification_handlers,
                 raise_error_if_not_any_registered_notification_handler,
                 pipeline_behaviors_cache, notification_handlers_cache,
                 calls_made, handled, last_registered,
                 suspended, notification_handler_log>>

\* variant: the mediator keeps the response of the last stage in a field of
\* its own, so the coroutine that resumes finds the response the other
\* coroutine left there
switch_shared_response ==
  /\ call # suspended \/ mediators.away # mediators.suspended_away
  /\ call' = [suspended EXCEPT !.value = call.value]
  /\ suspended' = call
  /\ mediators' = [mediators EXCEPT !.away = mediators.suspended_away,
                                    !.suspended_away = mediators.away]
  /\ UNCHANGED <<request_handlers, pipeline_behaviors,
                 pipeline_behavior_position, notification_handlers,
                 raise_error_if_not_any_registered_notification_handler,
                 pipeline_behaviors_cache, notification_handlers_cache,
                 calls_made, handled, last_registered,
                 notification_handler_log>>

\* the running coroutine is suspended at its await, or has ended, and the
\* event loop runs the other coroutine, or lets the caller start one; the
\* request, the handler, the resolved list and the index are locals of send,
\* of publish and of the continuation, and stay with their coroutine
switch ==
  /\ call # suspended \/ mediators.away # mediators.suspended_away
  /\ call' = suspended
  /\ suspended' = call
  /\ mediators' = [mediators EXCEPT !.away = mediators.suspended_away,
                                    !.suspended_away = mediators.away]
  /\ UNCHANGED <<request_handlers, pipeline_behaviors,
                 pipeline_behavior_position, notification_handlers,
                 raise_error_if_not_any_registered_notification_handler,
                 pipeline_behaviors_cache, notification_handlers_cache,
                 calls_made, handled, last_registered,
                 notification_handler_log>>

\* -------------------------------------------------------- two mediators
\* a dispatch coroutine is suspended at an await.  mediators.away (for the
\* running coroutine) and mediators.suspended_away (for the other one) tell
\* that it was started on the mediator that is not the current one, so that
\* its next step waits until the caller is back on its mediator.
InFlight(co) == co.pc \notin {"idle", "done"}
CallInFlight == InFlight(call)

\* variant: functools.cache keyed by the message alone, one entry per
\* message for all mediators
switch_mediator_shared_cache ==
  /\ mediators' = [current |-> OtherMediator(mediators.current),
                   away |-> IF CallInFlight THEN ~ mediators.away ELSE FALSE,
                   suspended_away |-> IF InFlight(suspended)
                                      THEN ~ mediators.suspended_away
                                      ELSE FALSE,
                   parked |-> ThisMediator]
  /\ request_handlers' = mediators.parked.request_handlers
  /\ pipeline_behaviors' = mediators.parked.pipeline_behaviors
  /\ pipeline_behavior_position' = mediators.parked.pipeline_behavior_position
  /\ notification_handlers' = mediators.parked.notification_handlers
  /\ raise_error_if_not_any_registered_notification_handler' =
       mediators.parked.raise_error_if_not_any_registered_notification_handler
  /\ last_registered' = mediators.parked.last_registered
  /\ notification_handler_log' = mediators.parked.notification_handler_log
  /\ UNCHANGED <<pipeline_behaviors_cache, notification_handlers_cache,
                 call, calls_made, handled, suspended>>

\* the caller turns to the other of its two Mediator objects: the next
\* register, send or publish call, or the next step of a dispatch, is one on
\* that object.  `self._...` then names the attributes of that object, and
\* the cached methods are called with that object as `self`.
switch_mediator ==
  /\ mediators' = [current |-> OtherMediator(mediators.current),
                   away |-> IF CallInFlight THEN ~ mediators.away ELSE FALSE,
                   suspended_away |-> IF InFlight(suspended)
                                      THEN ~ mediators.suspended_away
                                      ELSE FALSE,
                   parked |-> ThisMediator]
  /\ request_handlers' = mediators.parked.request_handlers
  /\ pipeline_behaviors' = mediators.parked.pipeline_behaviors
  /\ pipeline_behavior_position' = mediators.parked.pipeline_behavior_position
  /\ notification_handlers' = mediators.parked.notification_handlers
  /\ raise_error_if_not_any_registered_notification_handler' =
       mediators.parked.raise_error_if_not_any_registered_notification_handler
  /\ pipeline_behaviors_cache' = mediators.parked.pipeline_behaviors_cache
  /\ notification_handlers_cache' = mediators.parked.notification_handlers_cache
  /\ last_registered' = mediators.parked.last_registered
  /\ notification_handler_log' = mediators.parked.notification_handler_log
  /\ UNCHANGED <<call, calls_made, handled, suspended>>

\* --------------------------------------------------------------- retries
\* call.again[d] is the number of times the active behavior at depth d of the
\* stack has awaited its continuation again after it returned
AwaitedAgain(co, depth) ==
  IF depth <= Len(co.again) THEN co.again[depth] ELSE 0

\* the innermost active behavior got the response of its continuation and
\* its handle has a further `await next_behavior()` to run
InvokesAgain ==
  /\ call.pc = "pipeline_behavior_resume"
  /\ LET index == call.stack[Len(call.stack)]
         cls == call.pipeline_behaviors[index].pipeline_behavior
     IN 1 + AwaitedAgain(call, Len(call.stack)) < Invocations(cls)

\* one more await by the frame at a depth; the frames below it are gone
AgainAt(co, depth) ==
  [i \in 1..depth |->
     IF i < depth THEN AwaitedAgain(co, i) ELSE AwaitedAgain(co, depth) + 1]

\* variant: the continuation is run once and hands its first response to
\* every later await
pipeline_behavior_invokes_again_replayed ==
  /\ InvokesAgain
  /\ call' = [call EXCEPT !.again = AgainAt(call, Len(call.stack))]
  /\ UNCHANGED <<mediators, request_handlers, pipeline_behaviors,
                 pipeline_behavior_position, notification_handlers,
                 raise_error_if_not_any_registered_notification_handler,
                 pipeline_behaviors_cache, notification_handlers_cache,
                 calls_made, handled, last_registered,
                 suspended, notification_handler_log>>

\* the innermost active behavior awaits next_behavior() again: the closure
\* `_` runs once more from its start
pipeline_behavior_invokes_again ==
  /\ InvokesAgain
  /\ call' = next_pipeline_behavior(
               [call EXCEPT !.again = AgainAt(call, Len(call.stack))],
               call.stack[Len(call.stack)])
  /\ UNCHANGED <<mediators, request_handlers, pipeline_behaviors,
                 pipeline_behavior_position, notification_handlers,
                 raise_error_if_not_any_registered_notification_handler,
                 pipeline_behaviors_cache, notification_handlers_cache,
                 calls_made, handled, last_registered,
                 suspended, notification_handler_log>>

\* ---------------------------------------------------------- specification
\* the request side: request handlers, pipeline behaviors and send
SendStep ==
  \/ \E r \in Requests : send(r)
  \/ request_handler_created
  \/ pipeline_behavior_created
  \/ pipeline_behavior_handle
  \/ request_handler_handle
  \/ pipeline_behavior_resume

\* the notification side: notification handlers and publish
PublishStep ==
  \/ \E n \in Notifications : publish(n)
  \/ notification_handler_created
  \/ notification_handler_handle

NextSend ==
  \/ \E h \in RequestHandlerClasses : register_request_handler(h)
  \/ \E p \in PipelineBehaviorClasses : register_pipeline_behavior(p)
  \/ SendStep

NextPublish ==
  \/ \E h \in NotificationHandlerClasses : register_notification_handler(h)
  \/ PublishStep

\* both sides of one mediator, in any order and with either value of the
\* constructor flag; the run makes at most MaxMixedRunRegistrations behavior
\* and notification-handler registrations in all
Next ==
  \/ /\ DictSize(pipeline_behaviors) + DictSize(notification_handlers)
          < MaxMixedRunRegistrations
     /\ \/ \E p \in MixedRunPipelineBehaviorClasses :
             register_pipeline_behavior(p)
        \/ \E h \in MixedRunNotificationHandlerClasses :
             register_notification_handler(h)
  \/ \E h \in RequestHandlerClasses : register_request_handler(h)
  \/ \E r \in MixedRunRequests : send(r)
  \/ request_handler_created
  \/ pipeline_behavior_created
  \/ pipeline_behavior_handle
  \/ request_handler_handle
  \/ pipeline_behavior_resume
  \/ \E n \in MixedRunNotifications : publish(n)
  \/ notification_handler_created
  \/ notification_handler_handle

\* Mediator() with the default arguments
InitSend == Init /\ ~ raise_error_if_not_any_registered_notification_handler

Spec == Init /\ [][Next]_vars
SpecSend == InitSend /\ [][NextSend]_vars
SpecPublish == Init /\ [][NextPublish]_vars

\* two dispatch coroutines on one mediator, with registrations before,
\* between and during the dispatches; the run makes at most
\* MaxConcurrentRunRegistrations behavior and notification-handler
\* registrations in all
NextConcurrent ==
  \/ /\ DictSize(pipeline_behaviors) + DictSize(notification_handlers)
          < MaxConcurrentRunRegistrations
     /\ \/ \E p \in ConcurrentRunPipelineBehaviorClasses :
             register_pipeline_behavior(p)
        \/ \E h \in ConcurrentRunNotificationHandlerClasses :
             register_notification_handler(h)
  \/ \E h \in RequestHandlerClasses : register_request_handler(h)
  \/ \E r \in ConcurrentRunRequests : send(r)
  \/ request_handler_created
  \/ pipeline_behavior_created
  \/ pipeline_behavior_handle
  \/ request_handler_handle
  \/ pipeline_behavior_resume
  \/ \E n \in ConcurrentRunNotifications : publish(n)
  \/ notification_handler_created
  \/ notification_handler_handle
  \/ switch

SpecConcurrent == Init /\ [][NextConcurrent]_vars

\* the request side with handlers, behaviors and factories that may raise
NextSendFailing ==
  \/ \E h \in RequestHandlerClasses : register_request_handler(h)
  \/ \E p \in RaisingRunPipelineBehaviorClasses : register_pipeline_behavior(p)
  \/ SendStep
  \/ request_handler_factory_raises
  \/ pipeline_behavior_factory_raises
  \/ pipeline_behavior_handle_raises
  \/ request_handler_handle_raises
  \/ pipeline_behavior_except

SpecSendFailing == InitSend /\ [][NextSendFailing]_vars

\* the notification side with handlers and factories that may raise
NextPublishFailing ==
  \/ NextPublish
  \/ notification_handler_factory_raises
  \/ notification_handler_handle_raises

SpecPublishFailing == Init /\ [][NextPublishFailing]_vars

\* the request side with a behavior that invokes its continuation repeatedly
NextSendRetry ==
  \/ \E h \in RequestHandlerClasses : register_request_handler(h)
  \/ \E p \in RetryRunPipelineBehaviorClasses : register_pipeline_behavior(p)
  \/ \E r \in Requests : send(r)
  \/ request_handler_created
  \/ pipeline_behavior_created
  \/ pipeline_behavior_handle
  \/ request_handler_handle
  \/ pipeline_behavior_invokes_again
  \/ /\ ~ InvokesAgain
     /\ pipeline_behavior_resume

SpecSendRetry == InitSend /\ [][NextSendRetry]_vars

\* the request side, with the number of behaviors registered at the start of
\* each send recorded
NextSendRecorded ==
  \/ \E h \in RequestHandlerClasses : register_request_handler(h)
  \/ \E p \in RecordedRunPipelineBehaviorClasses : register_pipeline_behavior(p)
  \/ \E r \in Requests : send_recording_start(r)
  \/ request_handler_created
  \/ pipeline_behavior_created
  \/ pipeline_behavior_handle
  \/ request_handler_handle
  \/ pipeline_behavior_resume

SpecSendRecorded == InitSend /\ [][NextSendRecorded]_vars

\* two mediators and two dispatch coroutines of one caller: registrations,
\* sends and publishes on either mediator, also while a dispatch on the other
\* one, or on the same one, is suspended
NextTwoMediators ==
  \/ /\ DictSize(pipeline_behaviors) + DictSize(notification_handlers)
          + DictSize(mediators.parked.pipeline_behaviors)
          + DictSize(mediators.parked.notification_handlers)
          < MaxTwoMediatorRunRegistrations
     /\ \/ \E p \in TwoMediatorRunPipelineBehaviorClasses :
             register_pipeline_behavior(p)
        \/ \E h \in TwoMediatorRunNotificationHandlerClasses :
             register_notification_handler(h)
  \/ \E h \in TwoMediatorRunRequestHandlerClasses :
       register_request_handler(h)
  \/ \E r \in TwoMediatorRunRequests : send(r)
  \/ \E n \in TwoMediatorRunNotifications : publish(n)
  \/ /\ ~ mediators.away
     /\ \/ request_handler_created
        \/ pipeline_behavior_created
        \/ pipeline_behavior_handle
        \/ request_handler_handle
        \/ pipeline_behavior_resume
        \/ notification_handler_created
        \/ notification_handler_handle
  \/ switch
  \/ switch_mediator

SpecTwoMediators == Init /\ [][NextTwoMediators]_vars

\* =================================================================== claims
\* vocabulary of the properties

\* the handler class that had been registered last for the exact type of the
\* call's request when the call started
HandlerAtStart == call.registered_at_start[TypeOf(call.message)]

IsSend == call.kind = "send"
IsPublish == call.kind = "publish"

\* the places of the call's trace that hold an event of one of the kinds
EventsOf(kinds) ==
  {k \in 1..Len(call.trace) : call.trace[k].ev \in kinds}

\* all registrations held by the behavior registry
AllRegistrations ==
  UNION {{pipeline_behaviors[i].value[j] :
            j \in 1..Len(pipeline_behaviors[i].value)} :
         i \in 1..Len(pipeline_behaviors)}

\* the key a registration of the behavior registry is stored under
KeyOf(reg) ==
  CHOOSE K \in RequestTypes :
    \E i \in 1..Len(pipeline_behaviors) :
      /\ pipeline_behaviors[i].key = K
      /\ \E j \in 1..Len(pipeline_behaviors[i].value) :
           pipeline_behaviors[i].value[j] = reg

\* the registrations matching type T: stored under T or under a base of T
MatchingRegistrations(T) ==
  {reg \in AllRegistrations : issubclass(T, KeyOf(reg))}

\* C1: a send of a request whose exact type had no registered handler when
\* the call was made has failed with NoRequestHandlerFoundError carrying that
\* very request, and it made no factory call and no handle call
C1_NoHandlerFails ==
  (IsSend /\ HandlerAtStart = NoHandler) =>
    /\ call.pc = "done"
    /\ call.outcome = "NoRequestHandlerFoundError"
    /\ call.error_arg = call.message
    /\ call.trace = <<>>
    /\ call.request_handler = NoHandler

\* a send of a1 failed for want of a handler while a behavior matching a1 was
\* registered
C1_Witness ==
  /\ IsSend
  /\ HandlerAtStart = NoHandler
  /\ call.outcome = "NoRequestHandlerFoundError"
  /\ call.message = "a1"
  /\ MatchingRegistrations("A") # {}

\* C2: every factory call and handle call a send makes for a request handler
\* is for the class registered last, before the send started, for the
\* request's type
C2_LastRegisteredWins ==
  IsSend =>
    \A k \in EventsOf({"factory_rh", "enter_rh", "exit_rh"}) :
      call.trace[k].cls = HandlerAtStart

\* an earlier send ran HA1, HA2 then replaced HA1, and this send ran HA2
C2_Witness ==
  /\ IsSend
  /\ call.pc = "done"
  /\ calls_made = 2
  /\ "HA1" \in handled
  /\ HandlerAtStart = "HA2"
  /\ EventsOf({"exit_rh"}) # {}
  /\ call.value = HandlerResult("HA2")

\* when the call started its request had no handler for its exact type and
\* had a handler for a strict base of that type
OnlyBaseHandled ==
  /\ HandlerAtStart = NoHandler
  /\ \E S \in RequestTypes :
       /\ S # TypeOf(call.message)
       /\ issubclass(TypeOf(call.message), S)
       /\ call.registered_at_start[S] # NoHandler

\* C3: a send of a request whose exact type has no handler fails with
\* NoRequestHandlerFoundError also when a base of its type has a handler;
\* the base's handler is not used
C3_ExactTypeLookup ==
  (IsSend /\ OnlyBaseHandled) =>
    /\ call.outcome = "NoRequestHandlerFoundError"
    /\ call.error_arg = call.message
    /\ EventsOf({"factory_rh", "enter_rh", "exit_rh"}) = {}

\* a request of type SubA was sent while A had a handler, and failed
C3_Witness ==
  /\ IsSend
  /\ OnlyBaseHandled
  /\ call.message = "suba1"
  /\ call.registered_at_start["A"] = "HA1"
  /\ call.pc = "done"
  /\ call.outcome = "NoRequestHandlerFoundError"

\* the send has resolved its behaviors, and no behavior matching its request
\* had been registered by then
NoBehaviorMatched ==
  /\ IsSend
  /\ call.pc \notin {"idle", "create_request_handler"}
  /\ call.outcome # "NoRequestHandlerFoundError"
  /\ \A reg \in MatchingRegistrations(TypeOf(call.message)) :
       reg.position >= call.positions_seen

\* C4: when no registered behavior matches the request, send calls handle of
\* the registered handler once, calls no behavior, and returns the value
\* that handle produced
C4_NoBehaviorRawResult ==
  NoBehaviorMatched =>
    /\ EventsOf({"factory_pb", "enter_pb", "exit_pb"}) = {}
    /\ Cardinality(EventsOf({"enter_rh"})) = 1
    /\ \A k \in EventsOf({"enter_rh"}) : call.trace[k].cls = HandlerAtStart
    /\ call.pc = "done" =>
         /\ call.outcome = "returned"
         /\ Cardinality(EventsOf({"exit_rh"})) = 1
         /\ call.value = HandlerResult(HandlerAtStart)

\* a send without matching behaviors returned the absent response of HA2,
\* while a behavior of a type that does not match was registered
C4_Witness ==
  /\ NoBehaviorMatched
  /\ call.pc = "done"
  /\ HandlerAtStart = "HA2"
  /\ call.value = NoneValue
  /\ AllRegistrations # {}

\* the registration position of the behavior an event of the trace is about
PositionAt(k) == call.pipeline_behaviors[call.trace[k].idx].position

\* the behavior at an index of the resolved list has started / has returned
\* before place k of the trace
StartedBefore(index, k) ==
  \E j \in 1..(k - 1) :
    call.trace[j].ev = "enter_pb" /\ call.trace[j].idx = index

ReturnedBefore(index, k) ==
  \E j \in 1..(k - 1) :
    call.trace[j].ev = "exit_pb" /\ call.trace[j].idx = index

\* C5: when a behavior starts, every behavior of the resolved list with a
\* smaller registration position has started and has not returned yet; and
\* a behavior with a smaller position returns after the ones with a greater
\* position
C5_PositionOrder ==
  IsSend =>
    /\ \A k \in EventsOf({"enter_pb"}) :
         \A m \in 1..Len(call.pipeline_behaviors) :
           call.pipeline_behaviors[m].position < PositionAt(k) =>
             StartedBefore(m, k) /\ ~ ReturnedBefore(m, k)
    /\ \A k1, k2 \in EventsOf({"exit_pb"}) :
         PositionAt(k1) < PositionAt(k2) => k2 < k1

\* behaviors registered for A, then Request, then A again (the registry
\* holds the key A before the key Request, with positions 0 and 2 under A)
\* ran around one request in the order 0, 1, 2 and returned in the order
\* 2, 1, 0
C5_Witness ==
  /\ IsSend
  /\ call.pc = "done"
  /\ Len(pipeline_behaviors) = 2
  /\ pipeline_behaviors[1].key = "A"
  /\ pipeline_behaviors[2].key = "Request"
  /\ Len(pipeline_behaviors[1].value) = 2
  /\ Len(call.pipeline_behaviors) = 3
  /\ Cardinality(EventsOf({"enter_pb"})) = 3
  /\ Cardinality(EventsOf({"exit_pb"})) = 3
  /\ call.pipeline_behaviors[2].pipeline_behavior = "PReqWrap"

\* the behavior at a 1-based index of the resolved list ran and is one that
\* returns without invoking its continuation
ShortCircuitAt(i) ==
  /\ i \in 1..Len(call.pipeline_behaviors)
  /\ ~ CallsNext(call.pipeline_behaviors[i].pipeline_behavior)
  /\ \E k \in EventsOf({"enter_pb"}) : call.trace[k].idx = i

\* the value v after the behaviors at the indexes j, j-1, .., 1 returned it
RECURSIVE PassedBack(_, _)
PassedBack(j, v) ==
  IF j = 0 THEN v
  ELSE PassedBack(j - 1,
         BehaviorResult(call.pipeline_behaviors[j].pipeline_behavior, v))

\* C6: when the behavior at index i returns without invoking its
\* continuation, no later behavior and no request handler is invoked in that
\* send, and send returns the value of behavior i as the behaviors before
\* it pass it back
C6_ShortCircuit ==
  IsSend =>
    \A i \in 1..Len(call.pipeline_behaviors) :
      ShortCircuitAt(i) =>
        /\ \A k \in EventsOf({"enter_pb", "exit_pb"}) : call.trace[k].idx <= i
        /\ EventsOf({"enter_rh", "exit_rh"}) = {}
        /\ call.pc = "done" =>
             /\ call.outcome = "returned"
             /\ call.value =
                  PassedBack(i - 1,
                    BehaviorResult(call.pipeline_behaviors[i].pipeline_behavior,
                                   NoValue))

\* PAWrap, PAShort and a third behavior were resolved; PAShort returned its
\* own response, PAWrap passed it back with its key added, and the third behavior
\* and the handler did not run
C6_Witness ==
  /\ IsSend
  /\ call.pc = "done"
  /\ Len(call.pipeline_behaviors) = 3
  /\ call.pipeline_behaviors[1].pipeline_behavior = "PAWrap"
  /\ ShortCircuitAt(2)
  /\ call.value = <<"short", "test">>

\* C7 as stated: when the behavior at index i never invokes its
\* continuation, the send makes no factory call for a behavior after i and
\* none for the request handler
C7_NoLaterFactoryCall ==
  IsSend =>
    \A i \in 1..Len(call.pipeline_behaviors) :
      ShortCircuitAt(i) =>
        /\ \A k \in EventsOf({"factory_pb"}) : call.trace[k].idx <= i
        /\ EventsOf({"factory_rh"}) = {}

\* C7 amended: when the behavior at index i never invokes its continuation,
\* the send makes no factory call for a behavior after i and does not invoke
\* the request handler; the request handler factory was called once, as the
\* first step of the send, before any behavior was created
C7_LazyBehaviorsEagerHandler ==
  IsSend =>
    \A i \in 1..Len(call.pipeline_behaviors) :
      ShortCircuitAt(i) =>
        /\ \A k \in EventsOf({"factory_pb"}) : call.trace[k].idx <= i
        /\ EventsOf({"enter_rh"}) = {}
        /\ EventsOf({"factory_rh"}) = {1}
        /\ call.trace[1].cls = HandlerAtStart

\* the first behavior of two short-circuited: the second was never created,
\* and the handler was created and never invoked
C7_Witness ==
  /\ IsSend
  /\ call.pc = "done"
  /\ Len(call.pipeline_behaviors) = 2
  /\ ShortCircuitAt(1)
  /\ EventsOf({"factory_rh"}) = {1}
  /\ EventsOf({"factory_pb"}) = {2}

\* the step of a send that resolves the behaviors of its request
SendResolves == call.pc = "create_request_handler" /\ call' # call

\* the step that starts a publish, which resolves the notification handlers
PublishStarts == calls_made' = calls_made + 1 /\ call'.kind = "publish"

\* the number of places of a list that hold x
Count(list, x) == Cardinality({k \in 1..Len(list) : list[k] = x})

\* the number of times a notification handler class is registered
RegisteredCount(cls) ==
  LET i == KeyIndex(notification_handlers, get_notification_type(cls))
  IN IF i = 0 THEN 0 ELSE Count(notification_handlers[i].value, cls)

\* a list of behavior registrations holds each registration matching type T
\* once and nothing else
ExactlyMatchingBehaviors(list, T) ==
  /\ {list[k] : k \in 1..Len(list)} = MatchingRegistrations(T)
  /\ Len(list) = Cardinality(MatchingRegistrations(T))

\* a list of notification handler classes holds each class registered under
\* a key matching type T as often as it is registered, and no other class
ExactlyMatchingHandlers(list, T) ==
  \A cls \in NotificationHandlerClasses :
    Count(list, cls) =
      IF issubclass(T, get_notification_type(cls))
      THEN RegisteredCount(cls) ELSE 0

\* the step property of C8 as stated
ResolvedIsUnion ==
  /\ SendResolves =>
      ExactlyMatchingBehaviors(call'.pipeline_behaviors,
                               TypeOf(call.message))
  /\ PublishStarts =>
      ExactlyMatchingHandlers(call'.notification_handlers,
                              TypeOf(call'.message))

\* C8 as stated: the list a send or a publish resolves for a message of type
\* T holds exactly the entries registered under the keys K with T a subtype
\* of K or K itself
C8_ResolvedIsUnion == [][ResolvedIsUnion]_vars

\* the step property of C8 amended
ResolvedIsUnionAtFirstDispatch ==
  /\ SendResolves =>
      IF pipeline_behaviors_cache[call.message].cached
      THEN call'.pipeline_behaviors =
             pipeline_behaviors_cache[call.message].result
      ELSE ExactlyMatchingBehaviors(call'.pipeline_behaviors,
                                    TypeOf(call.message))
  /\ PublishStarts =>
      IF notification_handlers_cache[call'.message].cached
      THEN call'.notification_handlers =
             notification_handlers_cache[call'.message].result
      ELSE ExactlyMatchingHandlers(call'.notification_handlers,
                                   TypeOf(call'.message))

\* C8 amended: at the first dispatch of a message object on the mediator the
\* resolved list holds exactly the entries registered at that moment under
\* the keys matching its type; a later dispatch of the same object gets the
\* list of its first dispatch
C8_ResolvedIsUnionAtFirstDispatch == [][ResolvedIsUnionAtFirstDispatch]_vars

\* a first dispatch of a request of type A resolved the behaviors registered
\* under A and under its base Request while a behavior registered under the
\* subtype SubA was left out, or a first publish of a SubN notification
\* resolved handlers of two keys while a handler for the unrelated type M
\* was registered and left out
C8_Witness ==
  \/ /\ IsSend
     /\ ~ call.cache_hit
     /\ call.message = "a1"
     /\ call.positions_seen = 3
     /\ Len(call.pipeline_behaviors) = 2
     /\ \E reg \in AllRegistrations : reg.pipeline_behavior = "PSubAFwd"
     /\ \E k \in 1..2 : call.pipeline_behaviors[k].pipeline_behavior = "PReqWrap"
     /\ \E k \in 1..2 : call.pipeline_behaviors[k].pipeline_behavior = "PAWrap"
  \/ /\ IsPublish
     /\ ~ call.cache_hit
     /\ call.message = "subn1"
     /\ Len(call.notification_handlers) = 2
     /\ RegisteredCount("NHM") = 1
     /\ Count(call.notification_handlers, "NHSubN") = 1

\* the number of registered notification handlers matching a type
RECURSIVE MatchingCount(_, _)
MatchingCount(dict, T) ==
  IF dict = <<>> THEN 0
  ELSE (IF issubclass(T, Head(dict).key) THEN Len(Head(dict).value) ELSE 0)
       + MatchingCount(Tail(dict), T)

\* the started publish has failed with the error, which carries the
\* notification / has returned without creating or invoking a handler
RaisedNotAny(co) ==
  /\ co.pc = "done"
  /\ co.outcome = "NotAnyNotificationHandlerFoundError"
  /\ co.error_arg = co.message

ReturnedUntouched(co) ==
  /\ co.pc = "done"
  /\ co.outcome = "returned"
  /\ co.trace = <<>>

\* the step property of C9 as stated
RaisesIffStrictAndNoneRegistered ==
  PublishStarts =>
   LET flag == raise_error_if_not_any_registered_notification_handler
       matching == MatchingCount(notification_handlers,
                                 TypeOf(call'.message))
   IN /\ (matching = 0 /\ flag) => RaisedNotAny(call')
      /\ (matching = 0 /\ ~ flag) => ReturnedUntouched(call')
      /\ matching > 0 =>
           call'.outcome # "NotAnyNotificationHandlerFoundError"

\* C9 as stated: a publish with no registered matching handler raises the
\* error, carrying the notification, if and only if the flag is on, and
\* returns without creating or invoking anything when the flag is off; a
\* publish with a registered matching handler does not raise
C9_RaisesIffStrictAndNoneRegistered == [][RaisesIffStrictAndNoneRegistered]_vars

\* the step property of C9 amended
RaisesIffStrictAndNoneResolved ==
  PublishStarts =>
   LET flag == raise_error_if_not_any_registered_notification_handler
       matching == MatchingCount(notification_handlers,
                                 TypeOf(call'.message))
       first == ~ notification_handlers_cache[call'.message].cached
   IN /\ (matching = 0 /\ flag) => RaisedNotAny(call')
      /\ (matching = 0 /\ ~ flag) => ReturnedUntouched(call')
      /\ ((first /\ matching > 0) \/ call'.notification_handlers # <<>>) =>
           call'.outcome # "NotAnyNotificationHandlerFoundError"
      /\ ~ first =>
           call'.notification_handlers =
             notification_handlers_cache[call'.message].result
      /\ call'.outcome = "NotAnyNotificationHandlerFoundError" =>
           flag /\ call'.notification_handlers = <<>>

\* C9 amended: as stated for a publish with no registered matching handler;
\* a publish does not raise when a matching handler was registered at the
\* first publish of that notification object, and more generally when the
\* list resolved for it is not empty; a repeated publish of the same object
\* gets the list of its first publish
C9_RaisesIffStrictAndNoneResolved == [][RaisesIffStrictAndNoneResolved]_vars

\* with the flag on, a notification was published again after a handler for
\* its type had been registered, and the publish raised as the first one did
C9_Witness ==
  /\ IsPublish
  /\ raise_error_if_not_any_registered_notification_handler
  /\ RaisedNotAny(call)
  /\ call.cache_hit
  /\ MatchingCount(notification_handlers, TypeOf(call.message)) > 0

\* the events of a publish that runs the handlers of a list from a 1-based
\* index on, one after the other: factory call, handle called, handle done
RECURSIVE PublishEvents(_, _)
PublishEvents(list, index) ==
  IF index > Len(list) THEN <<>>
  ELSE <<Event("factory_nh", list[index], index),
         Event("enter_nh", list[index], index),
         Event("exit_nh", list[index], index)>>
       \o PublishEvents(list, index + 1)

\* C10: a publish creates and invokes the handlers of its resolved list one
\* by one in the order of the list, the factory call for the next handler
\* coming after handle of the previous one has completed, and when it has
\* returned every handler of the list was invoked once
C10_SequentialOnce ==
  IsPublish =>
    LET expected == PublishEvents(call.notification_handlers, 1)
    IN /\ Len(call.trace) <= Len(expected)
       /\ call.trace = SubSeq(expected, 1, Len(call.trace))
       /\ (call.pc = "done" /\ call.outcome = "returned") =>
            call.trace = expected

\* a publish of a SubN notification ran three handlers registered under two
\* keys and returned
C10_Witness ==
  /\ IsPublish
  /\ call.message = "subn1"
  /\ call.pc = "done"
  /\ call.outcome = "returned"
  /\ Len(call.notification_handlers) = 3
  /\ Len(notification_handlers) = 2
  /\ Len(call.trace) = 9

\* a behavior class that awaits its continuation once and returns what the
\* continuation returned
Forwards(cls) ==
  /\ Invocations(cls) = 1
  /\ \A v \in {HandlerResult(h) : h \in RequestHandlerClasses} :
       BehaviorResult(cls, v) = v

\* C13: a send through one or more behaviors that all forward the result of
\* their continuation returns the value the request handler returned
C13_ForwardedResult ==
  (/\ IsSend
   /\ call.pc = "done"
   /\ call.outcome = "returned"
   /\ Len(call.pipeline_behaviors) >= 1
   /\ \A k \in 1..Len(call.pipeline_behaviors) :
        Forwards(call.pipeline_behaviors[k].pipeline_behavior)) =>
    /\ Cardinality(EventsOf({"exit_rh"})) = 1
    /\ call.value = HandlerResult(HandlerAtStart)

\* the response of HA1 came back through two forwarding behaviors
C13_Witness ==
  /\ IsSend
  /\ call.pc = "done"
  /\ Len(call.pipeline_behaviors) >= 2
  /\ \A k \in 1..Len(call.pipeline_behaviors) :
       Forwards(call.pipeline_behaviors[k].pipeline_behavior)
  /\ HandlerAtStart = "HA1"
  /\ call.value = <<"ha1">>

\* a send that resolves its behaviors gets the list cached for any request of
\* the same type that was sent before
SameListPerType ==
  SendResolves =>
    \A r \in Requests :
      (TypeOf(r) = TypeOf(call.message) /\ pipeline_behaviors_cache[r].cached) =>
        call'.pipeline_behaviors = pipeline_behaviors_cache[r].result

\* C14: once a request of type T has been sent, a later send of any request
\* of type T runs the behavior list resolved at the earlier send, so a
\* behavior registered in between is not applied
C14_CachedPerType == [][SameListPerType]_vars

\* the events of the chain from the behavior at a 1-based index on, when
\* every behavior awaits its continuation once: each behavior is created and
\* entered, the handler runs and completes, the behaviors return innermost
\* first
RECURSIVE ChainEvents(_, _, _)
ChainEvents(list, handler, index) ==
  IF index > Len(list)
  THEN <<Event("enter_rh", handler, 0), Event("exit_rh", handler, 0)>>
  ELSE <<Event("factory_pb", list[index].pipeline_behavior, index),
         Event("enter_pb", list[index].pipeline_behavior, index)>>
       \o ChainEvents(list, handler, index + 1)
       \o <<Event("exit_pb", list[index].pipeline_behavior, index)>>

\* the events of the call before the exception that ended it, if one did
BeforeRaise ==
  IF call.trace # <<>> /\ call.trace[Len(call.trace)].ev = "raise_pb"
  THEN SubSeq(call.trace, 1, Len(call.trace) - 1)
  ELSE call.trace

\* C17: in a send whose behaviors each await their continuation once the
\* events are: enter b0, .., enter bN-1, the handler runs and completes,
\* exit bN-1, .., exit b0, and at every moment what has happened is a prefix
\* of that order; a send that returned went through the whole of it, and
\* only an exception raised by a stage cuts it short
C17_StrictNesting ==
  (/\ IsSend
   /\ call.pc \notin {"idle", "create_request_handler"}
   /\ call.outcome # "NoRequestHandlerFoundError"
   /\ \A k \in 1..Len(call.pipeline_behaviors) :
        CallsNext(call.pipeline_behaviors[k].pipeline_behavior)) =>
    LET expected ==
          <<Event("factory_rh", HandlerAtStart, 0)>>
          \o ChainEvents(call.pipeline_behaviors, HandlerAtStart, 1)
    IN /\ Len(BeforeRaise) <= Len(expected)
       /\ BeforeRaise = SubSeq(expected, 1, Len(BeforeRaise))
       /\ BeforeRaise # call.trace =>
            call.pc = "done" /\ call.outcome = "raised"
       /\ (call.pc = "done" /\ call.outcome = "returned") =>
            call.trace = expected
       /\ (call.pc = "done" /\ call.outcome = "raised") =>
            BeforeRaise # call.trace

\* a send through three behaviors has returned
C17_Witness ==
  /\ IsSend
  /\ call.pc = "done"
  /\ Len(call.pipeline_behaviors) = 3
  /\ \A k \in 1..3 : CallsNext(call.pipeline_behaviors[k].pipeline_behavior)
  /\ call.outcome = "returned"
  /\ Len(call.trace) = 12

\* the positions held by the behavior registry are pairwise distinct and are
\* 0 .. n-1 for its n registrations, the lists of the keys are in ascending
\* position, and the counter is n
PositionsWellFormed ==
  LET n == DictSize(pipeline_behaviors)
  IN /\ Cardinality(AllRegistrations) = n
     /\ {reg.position : reg \in AllRegistrations} = 0..(n - 1)
     /\ \A reg1, reg2 \in AllRegistrations :
          reg1.position = reg2.position => reg1 = reg2
     /\ \A i \in 1..Len(pipeline_behaviors) :
          \A j, k \in 1..Len(pipeline_behaviors[i].value) :
            j < k => pipeline_behaviors[i].value[j].position
                       < pipeline_behaviors[i].value[k].position
     /\ pipeline_behavior_position = n

\* a step that changes the behavior registry keeps every registration with
\* its position and adds one whose position is the counter before the step,
\* above all earlier positions; a step that leaves the registry alone leaves
\* the counter alone
PositionsStep ==
  /\ PositionsWellFormed'
  /\ pipeline_behaviors' # pipeline_behaviors =>
       /\ AllRegistrations \subseteq AllRegistrations'
       /\ \E reg \in AllRegistrations' :
            /\ AllRegistrations' = AllRegistrations \cup {reg}
            /\ reg.position = pipeline_behavior_position
            /\ \A old \in AllRegistrations : old.position < reg.position
       /\ pipeline_behavior_position' = pipeline_behavior_position + 1
  /\ pipeline_behaviors' = pipeline_behaviors =>
       pipeline_behavior_position' = pipeline_behavior_position

\* C18: the positions stored in the behavior registry are pairwise distinct
\* and are exactly 0 .. n-1 after n registrations, a later registration has
\* a greater position than every earlier one, the counter equals n, and
\* only register_pipeline_behavior changes the counter
C18_PositionCounter == [][PositionsStep]_vars

\* three behaviors were registered under two keys, and a request handler was
\* registered and a send completed in between
C18_Witness ==
  /\ pipeline_behavior_position = 3
  /\ Len(pipeline_behaviors) = 2
  /\ IsSend
  /\ call.pc = "done"
  /\ call.positions_seen = 1
  /\ request_handlers["A"] # NoHandler

\* the value of a key of the notification handler registry, empty for a key
\* it does not hold
RegisteredUnder(dict, K) ==
  IF KeyIndex(dict, K) = 0 THEN <<>> ELSE dict[KeyIndex(dict, K)].value

\* list1 is the beginning of list2
IsPrefix(list1, list2) ==
  /\ Len(list1) <= Len(list2)
  /\ list1 = SubSeq(list2, 1, Len(list1))

\* the classes of a list that are registered under key K, in list order
UnderKey(list, K) ==
  LET HasKey(cls) == get_notification_type(cls) = K
  IN SelectSeq(list, HasKey)

\* the classes whose handle the publish has invoked, in the order of the
\* invocations
Invoked ==
  LET IsEnter(e) == e.ev = "enter_nh"
      enters == SelectSeq(call.trace, IsEnter)
  IN [k \in 1..Len(enters) |-> enters[k].cls]

\* a publish invokes the handlers of one key in the order of that key's list
InvokedInRegistrationOrder ==
  IsPublish =>
    \A K \in NotificationTypes :
      IsPrefix(UnderKey(Invoked, K),
               RegisteredUnder(notification_handlers, K))

\* a step that changes the notification handler registry appends one class
\* to the list of its key, a new key coming last, and leaves every other
\* entry as it was
AppendOnlyStep ==
  /\ notification_handlers' # notification_handlers =>
       \E cls \in NotificationHandlerClasses :
         LET K == get_notification_type(cls)
         IN /\ RegisteredUnder(notification_handlers', K) =
                 Append(RegisteredUnder(notification_handlers, K), cls)
            /\ \A i \in 1..Len(notification_handlers) :
                 /\ notification_handlers'[i].key = notification_handlers[i].key
                 /\ notification_handlers[i].key # K =>
                      notification_handlers'[i] = notification_handlers[i]
            /\ Len(notification_handlers') =
                 IF KeyIndex(notification_handlers, K) = 0
                 THEN Len(notification_handlers) + 1
                 ELSE Len(notification_handlers)
  /\ InvokedInRegistrationOrder'

\* C19: register_notification_handler appends the handler at the end of the
\* list of its key and never removes, replaces or reorders an entry of any
\* key, and a publish invokes the handlers of one key in the order in which
\* they were registered
C19_AppendOnly == [][AppendOnlyStep]_vars

\* NHN1 and NHN2 were registered under N in that order, another key was
\* registered in between or after, and a publish has invoked NHN1 then NHN2
C19_Witness ==
  /\ IsPublish
  /\ call.pc = "done"
  /\ RegisteredUnder(notification_handlers, "N") = <<"NHN1", "NHN2">>
  /\ Len(notification_handlers) = 2
  /\ UnderKey(Invoked, "N") = <<"NHN1", "NHN2">>

\* the keys of a registration log in the order of their first registration
RECURSIVE KeysByFirstRegistration(_)
KeysByFirstRegistration(log) ==
  IF log = <<>> THEN <<>>
  ELSE LET earlier == KeysByFirstRegistration(SubSeq(log, 1, Len(log) - 1))
           K == get_notification_type(log[Len(log)])
       IN IF \E i \in 1..Len(earlier) : earlier[i] = K
          THEN earlier ELSE Append(earlier, K)

\* the handlers of a registration log that match type T, grouped by key: the
\* groups in the order of the first registration of their keys, each group
\* in its registration order
GroupedByKey(log, T) ==
  LET keys == KeysByFirstRegistration(log)
  IN Flatten([i \in 1..Len(keys) |->
                IF issubclass(T, keys[i]) THEN UnderKey(log, keys[i])
                ELSE <<>>])

\* C20: the handlers a publish invokes are the matching handlers registered
\* up to some moment, grouped by key, the groups ordered by the first
\* registration of each key and each group in its registration order
C20_GroupedByKey ==
  IsPublish =>
    /\ \E n \in 0..Len(notification_handler_log) :
         call.notification_handlers =
           GroupedByKey(SubSeq(notification_handler_log, 1, n),
                        TypeOf(call.message))
    /\ IsPrefix(Invoked, call.notification_handlers)
    /\ (call.pc = "done" /\ call.outcome = "returned") =>
         Invoked = call.notification_handlers

\* NHN1, NHSubN and NHN2 were registered in that order and a SubN
\* notification was published: NHN2, registered last under the key seen
\* first, ran before NHSubN, registered before it
C20_Witness ==
  /\ IsPublish
  /\ call.pc = "done"
  /\ notification_handler_log = <<"NHN1", "NHSubN", "NHN2">>
  /\ Invoked = <<"NHN1", "NHN2", "NHSubN">>

\* the factory event that creates the instance a handle event is invoked on
FactoryOf(ev) ==
  CASE ev = "enter_rh" -> "factory_rh"
    [] ev = "enter_pb" -> "factory_pb"
    [] ev = "enter_nh" -> "factory_nh"

\* the places of the trace that hold the event
PlacesOf(event) == {k \in 1..Len(call.trace) : call.trace[k] = event}

\* the dispatch has returned, and it was a publish or a send whose behaviors
\* each invoked their continuation
CompletedOncePerStage ==
  /\ call.pc = "done"
  /\ call.outcome = "returned"
  /\ \A k \in 1..Len(call.pipeline_behaviors) :
       CallsNext(call.pipeline_behaviors[k].pipeline_behavior)

\* C15: every handle call of a dispatch is made on an instance that a factory
\* call of the same dispatch created for the registered class, and a
\* dispatch that completes with every behavior invoking its continuation has
\* called the factory once for the request handler, once for each behavior
\* of its list and once for each notification handler of its list, and for
\* nothing else
C15_FactoryPerDispatch ==
  /\ \A k \in EventsOf({"enter_rh", "enter_pb", "enter_nh"}) :
       \E j \in 1..(k - 1) :
         call.trace[j] = Event(FactoryOf(call.trace[k].ev),
                               call.trace[k].cls, call.trace[k].idx)
  /\ \A k \in EventsOf({"factory_rh", "factory_pb", "factory_nh"}) :
       PlacesOf(call.trace[k]) = {k}
  /\ CompletedOncePerStage =>
       /\ IsSend =>
            /\ PlacesOf(Event("factory_rh", HandlerAtStart, 0)) # {}
            /\ \A i \in 1..Len(call.pipeline_behaviors) :
                 PlacesOf(Event("factory_pb",
                   call.pipeline_behaviors[i].pipeline_behavior, i)) # {}
            /\ Cardinality(EventsOf({"factory_rh", "factory_pb", "factory_nh"}))
                 = 1 + Len(call.pipeline_behaviors)
       /\ IsPublish =>
            /\ \A i \in 1..Len(call.notification_handlers) :
                 PlacesOf(Event("factory_nh",
                   call.notification_handlers[i], i)) # {}
            /\ Cardinality(EventsOf({"factory_rh", "factory_pb", "factory_nh"}))
                 = Len(call.notification_handlers)

\* the second of two dispatches completed: a send through two behaviors
\* with a handler class that an earlier send had used, or a publish to two
\* handlers
C15_Witness ==
  /\ calls_made = 2
  /\ CompletedOncePerStage
  /\ \/ /\ IsSend
        /\ Len(call.pipeline_behaviors) = 2
        /\ call.request_handler \in handled
        /\ Cardinality(EventsOf({"factory_rh", "factory_pb"})) = 3
     \/ /\ IsPublish
        /\ Len(call.notification_handlers) = 2
        /\ Cardinality(EventsOf({"factory_nh"})) = 2

\* the events of a publish in which the stage at index j raised: the
\* handlers before j ran one after the other, then the factory for j was
\* called and raised, or returned and handle of j was called and raised
FailFastEvents(list, error) ==
  PublishEvents(SubSeq(list, 1, error.idx - 1), 1)
  \o <<Event("factory_nh", list[error.idx], error.idx)>>
  \o (IF error.source = "factory"
      THEN <<Event("raise_factory_nh", list[error.idx], error.idx)>>
      ELSE <<Event("enter_nh", list[error.idx], error.idx),
             Event("raise_nh", list[error.idx], error.idx)>>)

\* C11: when handle of the j-th handler of a publish, or its factory call,
\* raises, the publish ends at once with that error: the handlers before j
\* have each been created and invoked once, no handler after j is created
\* or invoked, and the caller gets the error that was raised
C11_FailFast ==
  (IsPublish /\ (call.error # NoError
                  \/ EventsOf({"raise_nh", "raise_factory_nh"}) # {})) =>
    /\ call.pc = "done"
    /\ call.outcome = "raised"
    /\ call.error \in
         {StageError(source, call.notification_handlers[j], j) :
            source \in {"factory", "handle"},
            j \in 1..Len(call.notification_handlers)}
    /\ call.trace = FailFastEvents(call.notification_handlers, call.error)
    /\ \A k \in 1..Len(call.trace) : call.trace[k].idx <= call.error.idx
    /\ \A i \in 1..(call.error.idx - 1) :
         Cardinality({k \in EventsOf({"enter_nh"}) : call.trace[k].idx = i}) = 1

\* handle of the second of three handlers raised: the first handler ran, the
\* third was not created
C11_Witness ==
  /\ IsPublish
  /\ call.outcome = "raised"
  /\ Len(call.notification_handlers) = 3
  /\ call.error.idx = 2
  /\ call.error.source = "handle"
  /\ Len(call.trace) = 6

\* the events of a stage raising
RaiseEvents == {"raise_rh", "raise_factory_rh", "raise_pb", "raise_factory_pb"}

\* the exception that the raise event at place k of the trace raised
ErrorAt(k) ==
  StageError(IF call.trace[k].ev \in {"raise_rh", "raise_pb"}
             THEN "handle" ELSE "factory",
             call.trace[k].cls, call.trace[k].idx)

\* the behaviors that enclose the stage raising at place k: they were
\* entered before, have not returned or been left by an exception, and are
\* not the raising behavior itself
Enclosing(k) ==
  {i \in 1..Len(call.pipeline_behaviors) :
     /\ \E j \in 1..(k - 1) :
          call.trace[j].ev = "enter_pb" /\ call.trace[j].idx = i
     /\ ~ \E j \in 1..(k - 1) :
          call.trace[j].ev \in {"exit_pb", "raise_pb"} /\ call.trace[j].idx <= i
     /\ ~ (call.trace[k].ev = "raise_pb" /\ call.trace[k].idx = i)}

\* those of them that catch
CatchersAround(k) ==
  {i \in Enclosing(k) :
     Catches(call.pipeline_behaviors[i].pipeline_behavior)}

Innermost(indexes) == CHOOSE i \in indexes : \A j \in indexes : j <= i

\* C12: an exception raised in a send by the request handler, by a behavior
\* or by a factory call reaches the caller of send as that exception, and
\* the send returns no response, unless a behavior that encloses the raising
\* stage catches exceptions around its continuation; then the innermost
\* such behavior gets it
C12_ErrorPropagates ==
  IsSend =>
    /\ \A k \in EventsOf(RaiseEvents) :
         IF CatchersAround(k) = {}
         THEN /\ k = Len(call.trace)
              /\ call.pc = "done"
              /\ call.outcome = "raised"
              /\ call.error = ErrorAt(k)
              /\ call.value = NoValue
         ELSE IF k = Len(call.trace)
              THEN /\ call.pc = "pipeline_behavior_except"
                   /\ call.error = ErrorAt(k)
                   /\ call.stack[Len(call.stack)] = Innermost(CatchersAround(k))
              ELSE /\ call.trace[k + 1].ev = "exit_pb"
                   /\ call.trace[k + 1].idx = Innermost(CatchersAround(k))
    /\ call.outcome = "raised" =>
         /\ Len(call.trace) \in EventsOf(RaiseEvents)
         /\ call.value = NoValue
    /\ (call.error # NoError /\ call.outcome # "NoRequestHandlerFoundError") =>
         Len(call.trace) \in EventsOf(RaiseEvents)

\* the request handler raised below two forwarding behaviors and the caller
\* of send got its exception
C12_Witness ==
  /\ IsSend
  /\ call.outcome = "raised"
  /\ Len(call.pipeline_behaviors) = 2
  /\ \A k \in 1..2 : ~ Catches(call.pipeline_behaviors[k].pipeline_behavior)
  /\ call.error = StageError("handle", HandlerAtStart, 0)
  /\ Cardinality(EventsOf({"enter_pb"})) = 2

\* what the chain of a send does when it runs alone, from the behavior at a
\* 1-based index on: its events, the value it returns and whether it raises
RECURSIVE AloneRun(_, _, _)
AloneRun(list, handler, index) ==
  IF index > Len(list)
  THEN [events |-> <<Event("enter_rh", handler, 0),
                     Event("exit_rh", handler, 0)>>,
        value |-> HandlerResult(handler),
        raised |-> FALSE]
  ELSE LET cls == list[index].pipeline_behavior
           pre == <<Event("factory_pb", cls, index),
                    Event("enter_pb", cls, index)>>
           inner == AloneRun(list, handler, index + 1)
       IN IF ~ CallsNext(cls)
          THEN [events |-> pre \o <<Event("exit_pb", cls, index)>>,
                value |-> BehaviorResult(cls, NoValue),
                raised |-> FALSE]
          ELSE IF inner.raised
          THEN [events |-> pre \o inner.events,
                value |-> NoValue,
                raised |-> TRUE]
          ELSE IF BehaviorRaises(cls, inner.value)
          THEN [events |-> pre \o inner.events
                             \o <<Event("raise_pb", cls, index)>>,
                value |-> NoValue,
                raised |-> TRUE]
          ELSE [events |-> pre \o inner.events
                             \o <<Event("exit_pb", cls, index)>>,
                value |-> BehaviorResult(cls, inner.value),
                raised |-> FALSE]

AloneEvents(list, handler, index) == AloneRun(list, handler, index).events
AloneValue(list, handler, index) == AloneRun(list, handler, index).value

\* the list of registrations that holds each registration matching type T
\* once, in ascending position
RECURSIVE AscendingFrom(_, _)
AscendingFrom(T, position) ==
  IF position >= pipeline_behavior_position THEN <<>>
  ELSE (IF \E reg \in MatchingRegistrations(T) : reg.position = position
        THEN <<CHOOSE reg \in MatchingRegistrations(T) :
                 reg.position = position>>
        ELSE <<>>)
       \o AscendingFrom(T, position + 1)

\* nothing was registered on the mediator since the coroutine started: the
\* request handlers are those registered when the send started, and no
\* behavior or notification handler was added since the coroutine resolved
\* its list (a publish resolves it when it starts)
Undisturbed(co) ==
  /\ co.kind = "send" =>
       /\ co.registered_at_start = last_registered
       /\ (co.pc # "create_request_handler"
             /\ co.outcome # "NoRequestHandlerFoundError") =>
            co.positions_seen = DictSize(pipeline_behaviors)
  /\ co.kind = "publish" =>
       co.positions_seen = DictSize(notification_handlers)

\* the coroutine does what a send of its request does when it runs alone on
\* the mediator as it was when the coroutine started
SendAsAlone(co) ==
  LET T == TypeOf(co.message)
      handler == request_handlers[T]
      list == IF co.cache_hit
              THEN pipeline_behaviors_cache[co.message].result
              ELSE AscendingFrom(T, 0)
      alone == AloneRun(list, handler, 1)
      expected == <<Event("factory_rh", handler, 0)>> \o alone.events
  IN IF handler = NoHandler
     THEN /\ co.pc = "done"
          /\ co.outcome = "NoRequestHandlerFoundError"
          /\ co.error_arg = co.message
          /\ co.trace = <<>>
     ELSE /\ co.pc # "create_request_handler" => co.pipeline_behaviors = list
          /\ IsPrefix(co.trace, expected)
          /\ co.pc = "done" =>
               /\ co.trace = expected
               /\ co.outcome = (IF alone.raised THEN "raised" ELSE "returned")
               /\ co.value = alone.value

\* the coroutine does what a publish of its notification does when it runs
\* alone on the mediator as it was when the coroutine started
PublishAsAlone(co) ==
  LET list == IF co.cache_hit
              THEN notification_handlers_cache[co.message].result
              ELSE GroupedByKey(notification_handler_log, TypeOf(co.message))
      expected == PublishEvents(list, 1)
  IN /\ co.notification_handlers = list
     /\ IF list = <<>>
           /\ raise_error_if_not_any_registered_notification_handler
        THEN /\ co.pc = "done"
             /\ co.outcome = "NotAnyNotificationHandlerFoundError"
             /\ co.error_arg = co.message
             /\ co.trace = <<>>
        ELSE /\ IsPrefix(co.trace, expected)
             /\ co.pc = "done" =>
                  co.trace = expected /\ co.outcome = "returned"

\* C16: when two dispatch calls interleave at their suspension points, each
\* of them that ran with no registration since it started runs the stages
\* and returns the result of a call that runs alone, and both resolve the
\* same list for the same message
C16_ConcurrentAsAlone ==
  /\ \A co \in {call, suspended} :
       Undisturbed(co) =>
         /\ co.kind = "send" => SendAsAlone(co)
         /\ co.kind = "publish" => PublishAsAlone(co)
  /\ (/\ call.kind = suspended.kind
      /\ call.message = suspended.message
      /\ call.pc \notin {"idle", "create_request_handler"}
      /\ suspended.pc \notin {"idle", "create_request_handler"}
      /\ call.outcome # "NoRequestHandlerFoundError"
      /\ suspended.outcome # "NoRequestHandlerFoundError") =>
       /\ call.pipeline_behaviors = suspended.pipeline_behaviors
       /\ call.notification_handlers = suspended.notification_handlers

\* two sends of the same request are in flight through two behaviors, one
\* suspended in its handler and the other in its first behavior
C16_Witness ==
  /\ Undisturbed(call)
  /\ Undisturbed(suspended)
  /\ call.kind = "send"
  /\ suspended.kind = "send"
  /\ call.message = suspended.message
  /\ Len(call.pipeline_behaviors) = 2
  /\ call.pc = "request_handler_handle"
  /\ suspended.pc = "pipeline_behavior_handle"
  /\ suspended.stack = <<1>>

\* a send is in flight: it has started and has not ended
InFlightSend == IsSend /\ call.pc \notin {"idle", "done"}

\* the list of behaviors the send in flight runs, if nothing is registered
\* from now on: the list it has resolved, or, while it awaits the request
\* handler factory, the list it is about to resolve
BehaviorsToRun ==
  IF call.pc = "create_request_handler"
  THEN resolve_pipeline_behaviors(call.message)
  ELSE call.pipeline_behaviors

\* a register_request_handler or register_pipeline_behavior call that changes
\* a registry
RequestSideRegistration ==
  \/ request_handlers' # request_handlers
  \/ pipeline_behaviors' # pipeline_behaviors

\* a registration made while a send is in flight changes neither the
\* handler of the send nor the list of behaviors it runs
FixedAtStart ==
  (InFlightSend /\ RequestSideRegistration) =>
    /\ call'.request_handler = call.request_handler
    /\ BehaviorsToRun' = BehaviorsToRun

Reached(i) ==
  \A j \in 1..(i - 1) :
    CallsNext(call.pipeline_behaviors[j].pipeline_behavior)

SendStarts == calls_made' = calls_made + 1 /\ call'.kind = "send"

\* a dispatch of a message object that was dispatched before gets the list
\* of its first dispatch, a first dispatch stores its list for the later ones,
\* and a send gets the handler registered last for the type of its request
MemoizedPerObject ==
  /\ SendResolves =>
       IF pipeline_behaviors_cache[call.message].cached
       THEN /\ call'.pipeline_behaviors =
                 pipeline_behaviors_cache[call.message].result
            /\ pipeline_behaviors_cache' = pipeline_behaviors_cache
       ELSE pipeline_behaviors_cache' =
              [pipeline_behaviors_cache EXCEPT ![call.message] =
                 [cached |-> TRUE, result |-> call'.pipeline_behaviors]]
  /\ PublishStarts =>
       IF notification_handlers_cache[call'.message].cached
       THEN /\ call'.notification_handlers =
                 notification_handlers_cache[call'.message].result
            /\ notification_handlers_cache' = notification_handlers_cache
       ELSE notification_handlers_cache' =
              [notification_handlers_cache EXCEPT ![call'.message] =
                 [cached |-> TRUE, result |-> call'.notification_handlers]]
  /\ SendStarts =>
       /\ call'.request_handler = last_registered[TypeOf(call'.message)]
       /\ call'.request_handler # NoHandler =>
            call'.trace = <<Event("factory_rh",
                             last_registered[TypeOf(call'.message)], 0)>>

\* C24: a message object that is sent or published again runs the list
\* resolved at its first dispatch, without the entries registered since,
\* while the request handler of a send is looked up at every send, so that a
\* handler registered in between is the one invoked
C24_MemoizedPerObject == [][MemoizedPerObject]_vars

\* a1 was sent with handler HA1 and no behavior, a behavior for it and HA2
\* were registered, and a1 sent again ran no behavior and HA2; or a
\* notification published again reached one handler while two were
\* registered for it
C24_Witness ==
  /\ calls_made = 2
  /\ call.cache_hit
  /\ call.pc = "done"
  /\ call.outcome = "returned"
  /\ \/ /\ IsSend
        /\ call.pipeline_behaviors = <<>>
        /\ MatchingRegistrations(TypeOf(call.message)) # {}
        /\ "HA1" \in handled
        /\ HandlerAtStart = "HA2"
        /\ call.value = HandlerResult("HA2")
     \/ /\ IsPublish
        /\ Len(call.notification_handlers) = 1
        /\ MatchingCount(notification_handlers, TypeOf(call.message)) = 2
        /\ Len(Invoked) = 1

\* the number of events of a kind at an index of the resolved list
EventCount(kind, index) ==
  Cardinality({k \in EventsOf({kind}) : call.trace[k].idx = index})

\* the behaviors after index i of the resolved list invoke their
\* continuation once
LaterInvokeOnce(i) ==
  \A j \in (i + 1)..Len(call.pipeline_behaviors) :
    Invocations(call.pipeline_behaviors[j].pipeline_behavior) = 1

\* C23: in a send that returned, the request-handler factory was called once
\* and every handle ran on that handler; for a behavior i after which every
\* behavior invokes its continuation once, the handler's handle ran k times
\* for each run of behavior i, k being the number of times behavior i invokes
\* its continuation, and every later behavior was created and run as often
\* as the handler; so k times when behavior i ran once
C23_RetryRerunsRest ==
  (IsSend /\ call.pc = "done" /\ call.outcome = "returned") =>
    /\ EventCount("factory_rh", 0) = 1
    /\ call.trace[1] = Event("factory_rh", HandlerAtStart, 0)
    /\ \A k \in EventsOf({"enter_rh", "exit_rh"}) :
         call.trace[k].cls = HandlerAtStart
    /\ \A i \in 1..Len(call.pipeline_behaviors) :
         LaterInvokeOnce(i) =>
           /\ EventCount("enter_rh", 0) =
                Invocations(call.pipeline_behaviors[i].pipeline_behavior)
                  * EventCount("enter_pb", i)
           /\ EventCount("exit_rh", 0) = EventCount("enter_rh", 0)
           /\ \A j \in (i + 1)..Len(call.pipeline_behaviors) :
                /\ EventCount("factory_pb", j) = EventCount("enter_rh", 0)
                /\ EventCount("enter_pb", j) = EventCount("enter_rh", 0)
           /\ EventCount("enter_pb", i) = 1 =>
                EventCount("enter_rh", 0) =
                  Invocations(call.pipeline_behaviors[i].pipeline_behavior)

\* a send through a retrying behavior followed by a forwarding one returned:
\* one handler factory call, the forwarding behavior created and the handler
\* run once per invocation
C23_Witness ==
  /\ IsSend
  /\ call.pc = "done"
  /\ call.outcome = "returned"
  /\ Len(call.pipeline_behaviors) = 2
  /\ call.pipeline_behaviors[1].pipeline_behavior = "PARetry"
  /\ call.pipeline_behaviors[2].pipeline_behavior = "PAFwd"
  /\ EventCount("enter_pb", 1) = 1
  /\ EventCount("factory_pb", 2) = MaxContinuationCalls
  /\ EventCount("enter_rh", 0) = MaxContinuationCalls
  /\ EventCount("factory_rh", 0) = 1

\* what a dispatch on a mediator reads: its registries and the resolution
\* results memoized for it
DispatchView(m) ==
  LET state == IF m = mediators.current THEN ThisMediator
               ELSE mediators.parked
  IN [request_handlers |-> state.request_handlers,
      pipeline_behaviors |-> state.pipeline_behaviors,
      notification_handlers |-> state.notification_handlers,
      pipeline_behaviors_cache |-> state.pipeline_behaviors_cache,
      notification_handlers_cache |-> state.notification_handlers_cache]

\* the list a send of a request on a mediator resolves
BehaviorListOf(m, request) ==
  LET view == DispatchView(m)
  IN IF view.pipeline_behaviors_cache[request].cached
     THEN view.pipeline_behaviors_cache[request].result
     ELSE SortByPosition(Flatten(MatchingValues(view.pipeline_behaviors,
                                                TypeOf(request))))

\* the list a publish of a notification on a mediator resolves
NotificationHandlerListOf(m, notification) ==
  LET view == DispatchView(m)
  IN IF view.notification_handlers_cache[notification].cached
     THEN view.notification_handlers_cache[notification].result
     ELSE Flatten(MatchingValues(view.notification_handlers,
                                 TypeOf(notification)))

\* a step changes what the dispatches on a mediator read only when it is a
\* step of a call on that mediator, and a dispatch uses the handler and the
\* list of the mediator it is called on
Independent ==
  /\ \A m \in Mediators :
       DispatchView(m)' # DispatchView(m) =>
         /\ mediators.current = m
         /\ mediators'.current = m
  /\ SendStarts =>
       call'.request_handler =
         DispatchView(mediators.current).request_handlers[TypeOf(call'.message)]
  /\ (SendResolves /\ suspended' = suspended) =>
       call'.pipeline_behaviors =
         BehaviorListOf(mediators.current, call.message)
  /\ PublishStarts =>
       call'.notification_handlers =
         NotificationHandlerListOf(mediators.current, call'.message)

\* C21: the registries and the memoized resolution results of two mediators
\* are independent: no registration, send or publish on one mediator changes
\* the handler, the behavior list or the notification-handler list that a
\* dispatch on the other one uses, also when both dispatched the same message
\* object
C21_Independent == [][Independent]_vars

\* both mediators were given the same request object: the send on the
\* current one has returned through no behavior, while the send on the other
\* one, started first, is suspended in its handler after one behavior; each
\* used the list memoized for its own mediator
C21_Witness ==
  /\ calls_made = 2
  /\ IsSend
  /\ call.pc = "done"
  /\ call.outcome = "returned"
  /\ call.pipeline_behaviors = <<>>
  /\ pipeline_behaviors_cache[call.message] =
       [cached |-> TRUE, result |-> <<>>]
  /\ suspended.kind = "send"
  /\ suspended.message = call.message
  /\ suspended.pc = "request_handler_handle"
  /\ mediators.suspended_away
  /\ Len(suspended.pipeline_behaviors) = 1
  /\ mediators.parked.pipeline_behaviors_cache[call.message] =
       [cached |-> TRUE, result |-> suspended.pipeline_behaviors]
  /\ mediators.parked.request_handlers[TypeOf(call.message)]
       = suspended.request_handler

====
